---- MODULE Spec2Model ----
(***************************************************************************)
(* TrainLytics: the performance aggregator of TeamPerformanceAnalytics and *)
(* the Firebase loader (src/Trainlytics/firebase-loader.js), and the       *)
(* authentication code of the pages (src/Trainlytics/script.js).           *)
(*                                                                         *)
(* Numbers.  JavaScript numbers are modelled by exact integers in a fixed  *)
(* unit: points and counts are whole numbers, every value the code rounds  *)
(* with Math.round(x * 100) / 100 is held in hundredths, and every value   *)
(* it rounds with Math.round(x * 10) / 10 is held in tenths.  Math.round   *)
(* rounds half up (towards +infinity), which is Floor(x + 1/2).  The       *)
(* arithmetic of these values is exact; IEEE-754 representation error is   *)
(* modelled where a result is compared bit for bit, in calculateTrendLine. *)
(***************************************************************************)
EXTENDS Integers, Sequences, FiniteSets, TLC

VARIABLES
    trainingSessions,    \* argument: array of TrainingSession
    athleteSessionData,  \* argument: array of AthleteSessionRecord
    avgPoints,           \* argument of a direct calculateConsistency call
    dataPoints,          \* argument: the y-values of a chart, in hundredths
    parsedData,          \* argument: the dated points of a chart, sorted by date
    chartStats,          \* argument sessionStats of createChartConfig
    chartMetrics,        \* argument sessionMetrics of createAthleteMetricChart
    metric,              \* argument of createAthleteMetricChart: the field to chart
    localOffset,         \* the browser's time zone: minutes local time is ahead of UTC
    lastCall,            \* which method returned last ("none" before any call)
    result,              \* what that method returned
    console,             \* the console.warn calls made so far
    chartInstance,       \* field of the analytics object: the Chart of renderChart
    loads,               \* the calls of loadFirebaseWithFallback, each with its state
    scripts,             \* the script elements each of the calls has appended, in order
    pathname,            \* location.pathname: the page that is loaded
    switch,              \* whether location.search carries switch=1
    unloaded,            \* the page has been left: none of its code runs any more
    navigations,         \* the navigations the page's code has issued, in order
    accounts,            \* Firebase Authentication: the uids that have an account
    currentUser,         \* auth.currentUser: a uid or null
    authChanges,         \* how often the user was signed out from another tab
    profiles,            \* the 'profiles' collection of the document store, by uid
    localStorage,        \* the profile_<uid> items of localStorage, by uid
    syncs,               \* the uids whose background getDoc of getUserProfile is under way
    authGuardRunning,    \* window._authGuardRunning
    redirecting,         \* window._redirecting
    loginInProgress,     \* window._loginInProgress
    listening,           \* setupAuthGuards has registered its onAuthStateChanged handler
    events,              \* the auth-state events not yet handed to the handler
    guards,              \* the invocations of the onAuthStateChanged handler, each with its position
    login,               \* handleLoginSubmit: its position and locals
    signup,              \* handleSignupSubmit: its position and locals
    logoutCall,          \* logout: its position and locals
    sportSelection,      \* handleSportSelection: its position and locals
    requireAuthCall,     \* requireAuth: its argument, and its handler's events and invocations
    pageLoads,           \* how many pages the browser has loaded after the first
    teams,               \* window.teams: the teams the coach dashboard holds
    storedTeams,         \* the 'teams' collection of the document store
    removals             \* the calls of removeAthleteFromTeam, each with its position

\* the arguments of the methods
args == <<trainingSessions, athleteSessionData, avgPoints, dataPoints, parsedData,
          chartStats, chartMetrics, metric, localOffset>>

\* the analytics object, its arguments and what it returns and writes
analytics == <<args, lastCall, result, console, chartInstance>>

\* the Firebase loader
firebaseLoader == <<loads, scripts>>

\* the page of script.js, the Firebase services behind it and the browser
authentication == <<pathname, switch, unloaded, navigations, accounts, currentUser,
                    authChanges, profiles, localStorage, syncs, authGuardRunning,
                    redirecting, loginInProgress, listening, events, guards, login,
                    signup, logoutCall, sportSelection, requireAuthCall, pageLoads>>

\* the teams of the coach dashboard
teamView == <<teams, storedTeams, removals>>

\* the page around it
page == <<firebaseLoader, authentication, teamView>>

vars == <<trainingSessions, athleteSessionData, avgPoints, dataPoints, parsedData,
          chartStats, chartMetrics, metric, localOffset, lastCall, result, console,
          chartInstance, loads, scripts, pathname, switch, unloaded, navigations,
          accounts, currentUser, authChanges, profiles, localStorage, syncs,
          authGuardRunning, redirecting, loginInProgress, listening, events, guards,
          login, signup,
          logoutCall, sportSelection, requireAuthCall, pageLoads, teams, storedTeams,
          removals>>

(***************************************************************************)
(* Bounds of the checked input space.                                      *)
(***************************************************************************)
MaxSessions == 2      \* longest trainingSessions array put together freely
MaxRecords  == 3      \* longest athleteSessionData array
MaxValues   == 3      \* longest list handed to calculateConsistency
MaxPoints   == 3      \* longest dataPoints list
MaxCount    == 52     \* longest parsedData list
MaxRoster   == 4      \* longest athleteSessionData array of a roster
MaxStats    == 6      \* longest chartStats and chartMetrics array
MaxLoads    == 2      \* most calls of loadFirebaseWithFallback on one page
MaxAuthChanges == 1   \* most sign-outs made from another tab
MaxSubmits  == 1      \* most submissions of a form on one page
MaxLogouts  == 1      \* most calls of logout on one page
MaxPageLoads == 2     \* most pages loaded after the first
MaxRemovals == 2      \* most calls of removeAthleteFromTeam on one page

(***************************************************************************)
(* JavaScript values.                                                      *)
(***************************************************************************)
Null      == [null |-> TRUE]         \* the value null
Undefined == "<undefined>"            \* a missing text field
NoDate    == 0                        \* a missing sessionDate (falsy)

\* x || d for a text field: undefined and the empty string are falsy
OrDefault(x, d) == IF x \in {Undefined, ""} THEN d ELSE x

\* a raw numeric field as stored: a number, a numeric text such as "7",
\* a text that starts with a number such as "12 pts", any other text, or
\* nothing
RawNumber(n)       == [kind |-> "number", val |-> n]
RawNumericText(n)  == [kind |-> "numeric text", val |-> n]
RawPrefixedText(n) == [kind |-> "text after a number", val |-> n]
RawOtherText       == [kind |-> "other text", val |-> 0]
RawMissing        == [kind |-> "undefined", val |-> 0]

NaN == [nan |-> TRUE, val |-> 0]
Number(n) == [nan |-> FALSE, val |-> n]

\* parseFloat(x): the number at the start of the text form of x, or NaN
parseFloat(raw) ==
    IF raw.kind \in {"number", "numeric text", "text after a number"}
    THEN Number(raw.val)
    ELSE NaN

\* parseFloat(x) || 0 : NaN and 0 are falsy
parseFloatOrZero(raw) ==
    LET p == parseFloat(raw) IN IF p.nan \/ p.val = 0 THEN 0 ELSE p.val

\* String.prototype.toLowerCase on the attendance texts of the model
toLowerCase(s) ==
    CASE s = "Present"      -> "present"
      [] s = "LATE"         -> "late"
      [] s = "Left Early"   -> "left early"
      [] s = "Late Arrival" -> "late arrival"
      [] s = "Absent"       -> "absent"
      [] OTHER              -> s

\* RoundScaled with Math.floor in the place of Math.round
RoundScaled_Floor(num, den, scale) == (scale * num) \div den

\* Math.round(num / den * scale) for den > 0, as an integer
RoundScaled(num, den, scale) == (2 * scale * num + den) \div (2 * den)

RECURSIVE SumSeq(_)
SumSeq(s) == IF s = <<>> THEN 0 ELSE Head(s) + SumSeq(Tail(s))

RECURSIVE MaxSeq(_)
MaxSeq(s) ==
    IF Len(s) = 1 THEN s[1]
    ELSE LET m == MaxSeq(Tail(s)) IN IF s[1] >= m THEN s[1] ELSE m

RECURSIVE MinSeq(_)
MinSeq(s) ==
    IF Len(s) = 1 THEN s[1]
    ELSE LET m == MinSeq(Tail(s)) IN IF s[1] <= m THEN s[1] ELSE m

Map(s, F(_)) == [i \in 1..Len(s) |-> F(s[i])]

\* all sequences over S of length at most n
SeqUpTo(S, n) == UNION {[1..k -> S] : k \in 0..n}

(***************************************************************************)
(* calculateConsistency                                                    *)
(*                                                                         *)
(* With n values of sum S and sum of squares Q, let D = n*Q - S*S.  Then   *)
(* mean = S/n, variance = D/n^2, standardDeviation = Sqrt(D)/n and         *)
(* cv = Sqrt(D)/S.  The result is held in tenths.                          *)
(***************************************************************************)
\* 2000 * Sqrt(d) <= b for d >= 0, b >= 0, without leaving 32 bits
ScaledRootAtMost(d, b) ==
    LET q == b \div 2000
        r == b % 2000
        e == d - q * q
    IN  IF e <= 0 THEN TRUE
        ELSE IF e > 2 * q + 1 THEN FALSE
        ELSE LET x == 1000 * e - q * r
             IN  IF x <= 0 THEN TRUE
                 ELSE IF x > 1000 THEN FALSE
                 ELSE 4000 * x <= r * r

\* the least m in lo..hi with 2000 * Sqrt(d) <= m, by bisection
RECURSIVE CeilScaledRoot(_, _, _)
CeilScaledRoot(d, lo, hi) ==
    IF lo >= hi THEN hi
    ELSE LET mid == (lo + hi) \div 2
         IN  IF ScaledRootAtMost(d, mid) THEN CeilScaledRoot(d, lo, mid)
             ELSE CeilScaledRoot(d, mid + 1, hi)

SumSquares(s) == SumSeq([i \in 1..Len(s) |-> s[i] * s[i]])

\* calculateConsistency without Math.max(0, ...): a cv above 1 is not clamped
calculateConsistency_NoLowerClamp(points) ==
    IF Len(points) < 2 THEN 1000
    ELSE LET n == Len(points)
             S == SumSeq(points)
             D == n * SumSquares(points) - S * S
         IN  IF S <= 0 THEN 1000
             ELSE LET m == CeilScaledRoot(D, 0, 2000 * n * S)
                  IN  (2001 * S - m) \div (2 * S)

\* calculateConsistency dividing the variance, not its root, by the mean
calculateConsistency_NoRoot(points) ==
    IF Len(points) < 2 THEN 1000
    ELSE LET n == Len(points)
             S == SumSeq(points)
             D == n * SumSquares(points) - S * S
         IN  IF S <= 0 THEN 1000
             ELSE IF D >= n * S THEN 0
             ELSE (2001 * n * S - 2000 * D) \div (2 * n * S)

\* const cv = mean > 0 ? standardDeviation / mean : 0;
\* Math.round(Math.max(0, Math.min(100, (1 - cv) * 100)) * 10), in tenths
calculateConsistency(points) ==
    IF Len(points) < 2 THEN 1000
    ELSE LET n == Len(points)
             S == SumSeq(points)
             D == n * SumSquares(points) - S * S
         IN  IF S <= 0 THEN 1000                \* mean > 0 fails: cv = 0
             ELSE IF D >= S * S THEN 0          \* cv >= 1: clamped to 0
             ELSE LET m == CeilScaledRoot(D, 0, 2000 * S)
                  IN  (2001 * S - m) \div (2 * S)

(***************************************************************************)
(* Shared by the three calculators.                                        *)
(***************************************************************************)
ParticipatingStatuses == {"present", "late", "left early", "late arrival"}

\* isParticipating without toLowerCase
isParticipating_CaseSensitive(athlete) ==
    OrDefault(athlete.attendance, "Present") \in ParticipatingStatuses

\* const attendance = (athlete.attendance || 'Present').toLowerCase();
\* [...].includes(attendance)
isParticipating(athlete) ==
    toLowerCase(OrDefault(athlete.attendance, "Present")) \in ParticipatingStatuses

\* the date sort with its comparator reversed
RECURSIVE InsertByDate_Descending(_, _)
InsertByDate_Descending(sorted, x) ==
    IF sorted = <<>> THEN <<x>>
    ELSE IF Head(sorted).sessionDate - x.sessionDate < 0 THEN <<x>> \o sorted
    ELSE <<Head(sorted)>> \o InsertByDate_Descending(Tail(sorted), x)

RECURSIVE sortBySessionDate_Descending(_)
sortBySessionDate_Descending(s) ==
    IF s = <<>> THEN <<>>
    ELSE InsertByDate_Descending(
             sortBySessionDate_Descending(SubSeq(s, 1, Len(s) - 1)), s[Len(s)])

\* Array.prototype.sort((a, b) => new Date(a.sessionDate) - new Date(b.sessionDate))
\* on a copy: stable, ascending.  Every element carries a day number here.
RECURSIVE InsertByDate(_, _)
InsertByDate(sorted, x) ==
    IF sorted = <<>> THEN <<x>>
    ELSE IF x.sessionDate - Head(sorted).sessionDate < 0 THEN <<x>> \o sorted
    ELSE <<Head(sorted)>> \o InsertByDate(Tail(sorted), x)

RECURSIVE sortBySessionDate(_)
sortBySessionDate(s) ==
    IF s = <<>> THEN <<>>
    ELSE InsertByDate(sortBySessionDate(SubSeq(s, 1, Len(s) - 1)), s[Len(s)])

(***************************************************************************)
(* calculateTeamPerformanceTrend and generateSummary                       *)
(***************************************************************************)
\* SessionStatOf averaging over every record of the session, absent or not
SessionStatOf_AverageOverAll(session, data) ==
    LET sessionAthletes == SelectSeq(data, LAMBDA a : a.sessionId = session.id)
        participants    == SelectSeq(sessionAthletes, isParticipating)
        totalPoints     == SumSeq(Map(participants, LAMBDA a : parseFloatOrZero(a.points)))
        participatingAthletes == Len(participants)
    IN  IF Len(sessionAthletes) = 0 THEN <<>>
        ELSE IF participatingAthletes > 0
        THEN << [sessionId   |-> session.id,
                 sessionName |-> OrDefault(session.sessionName, "Training Session"),
                 sessionDate |-> IF session.sessionDate = NoDate
                                 THEN sessionAthletes[1].sessionDate
                                 ELSE session.sessionDate,
                 totalPoints |-> totalPoints,
                 participatingAthletes |-> participatingAthletes,
                 avgPointsPerPlayer |->
                     RoundScaled(totalPoints, Len(sessionAthletes), 100)] >>
        ELSE <<>>

\* SessionStatOf leaving out the records whose points do not parse
SessionStatOf_SkipUnparsed(session, data) ==
    LET sessionAthletes == SelectSeq(data, LAMBDA a : a.sessionId = session.id)
        participants    == SelectSeq(sessionAthletes,
                               LAMBDA a : isParticipating(a) /\ ~parseFloat(a.points).nan)
        totalPoints     == SumSeq(Map(participants, LAMBDA a : parseFloatOrZero(a.points)))
        participatingAthletes == Len(participants)
    IN  IF Len(sessionAthletes) = 0 THEN <<>>
        ELSE IF participatingAthletes > 0
        THEN << [sessionId   |-> session.id,
                 sessionName |-> OrDefault(session.sessionName, "Training Session"),
                 sessionDate |-> IF session.sessionDate = NoDate
                                 THEN sessionAthletes[1].sessionDate
                                 ELSE session.sessionDate,
                 totalPoints |-> totalPoints,
                 participatingAthletes |-> participatingAthletes,
                 avgPointsPerPlayer |->
                     RoundScaled(totalPoints, participatingAthletes, 100)] >>
        ELSE <<>>

\* SessionStatOf taking a missing date from the first record that counts
SessionStatOf_DateOfFirstParticipant(session, data) ==
    LET sessionAthletes == SelectSeq(data, LAMBDA a : a.sessionId = session.id)
        participants    == SelectSeq(sessionAthletes, isParticipating)
        totalPoints     == SumSeq(Map(participants, LAMBDA a : parseFloatOrZero(a.points)))
        participatingAthletes == Len(participants)
    IN  IF Len(sessionAthletes) = 0 THEN <<>>
        ELSE IF participatingAthletes > 0
        THEN << [sessionId   |-> session.id,
                 sessionName |-> OrDefault(session.sessionName, "Training Session"),
                 sessionDate |-> IF session.sessionDate = NoDate
                                 THEN participants[1].sessionDate
                                 ELSE session.sessionDate,
                 totalPoints |-> totalPoints,
                 participatingAthletes |-> participatingAthletes,
                 avgPointsPerPlayer |->
                     RoundScaled(totalPoints, participatingAthletes, 100)] >>
        ELSE <<>>

\* the body of trainingSessions.forEach: the stats pushed for one session
SessionStatOf(session, data) ==
    LET sessionAthletes == SelectSeq(data, LAMBDA a : a.sessionId = session.id)
        participants    == SelectSeq(sessionAthletes, isParticipating)
        totalPoints     == SumSeq(Map(participants, LAMBDA a : parseFloatOrZero(a.points)))
        participatingAthletes == Len(participants)
    IN  IF Len(sessionAthletes) = 0 THEN <<>>      \* console.warn; return
        ELSE IF participatingAthletes > 0
        THEN << [sessionId   |-> session.id,
                 sessionName |-> OrDefault(session.sessionName, "Training Session"),
                 sessionDate |-> IF session.sessionDate = NoDate
                                 THEN sessionAthletes[1].sessionDate
                                 ELSE session.sessionDate,
                 totalPoints |-> totalPoints,
                 participatingAthletes |-> participatingAthletes,
                 avgPointsPerPlayer |->
                     RoundScaled(totalPoints, participatingAthletes, 100)] >>
        ELSE <<>>

RECURSIVE CollectSessionStats(_, _)
CollectSessionStats(sessions, data) ==
    IF sessions = <<>> THEN <<>>
    ELSE SessionStatOf(Head(sessions), data) \o CollectSessionStats(Tail(sessions), data)

\* console.warn of the forEach body with a warning for every session that
\* yields no stat
SessionWarningOf_NoParticipants(session, data) ==
    LET sessionAthletes == SelectSeq(data, LAMBDA a : a.sessionId = session.id)
    IN  IF Len(SelectSeq(sessionAthletes, isParticipating)) = 0
        THEN << [warn        |-> "No athlete data found for session",
                 sessionName |-> OrDefault(session.sessionName, "Training Session")] >>
        ELSE <<>>

\* the console.warn of the forEach body: the warning made for one session
SessionWarningOf(session, data) ==
    LET sessionAthletes == SelectSeq(data, LAMBDA a : a.sessionId = session.id)
    IN  IF Len(sessionAthletes) = 0
        THEN << [warn        |-> "No athlete data found for session",
                 sessionName |-> OrDefault(session.sessionName, "Training Session")] >>
        ELSE <<>>

RECURSIVE CollectSessionWarnings(_, _)
CollectSessionWarnings(sessions, data) ==
    IF sessions = <<>> THEN <<>>
    ELSE SessionWarningOf(Head(sessions), data)
             \o CollectSessionWarnings(Tail(sessions), data)

\* generateSummary taking the mean over athletes, not over sessions
generateSummary_MeanOverAthletes(sessionStats) ==
    IF Len(sessionStats) = 0 THEN Null
    ELSE LET avgs          == Map(sessionStats, LAMBDA s : s.avgPointsPerPlayer)
             totalAthletes == SumSeq(Map(sessionStats, LAMBDA s : s.participatingAthletes))
             totalPoints   == SumSeq(Map(sessionStats, LAMBDA s : s.totalPoints))
         IN  [totalSessions  |-> Len(sessionStats),
              overallAverage |-> RoundScaled(totalPoints, totalAthletes, 100),
              highestAverage |-> MaxSeq(avgs),
              lowestAverage  |-> MinSeq(avgs),
              totalAthletesTracked |-> totalAthletes,
              averageAthletesPerSession |->
                  RoundScaled(totalAthletes, Len(sessionStats), 10),
              totalPointsScored |-> totalPoints,
              consistencyScore  |-> calculateConsistency(avgs)]

generateSummary(sessionStats) ==
    IF Len(sessionStats) = 0 THEN Null
    ELSE LET avgs          == Map(sessionStats, LAMBDA s : s.avgPointsPerPlayer)
             totalAthletes == SumSeq(Map(sessionStats, LAMBDA s : s.participatingAthletes))
             totalPoints   == SumSeq(Map(sessionStats, LAMBDA s : s.totalPoints))
         IN  [totalSessions  |-> Len(sessionStats),
              overallAverage |-> RoundScaled(SumSeq(avgs), Len(avgs), 1),
              highestAverage |-> MaxSeq(avgs),
              lowestAverage  |-> MinSeq(avgs),
              totalAthletesTracked |-> totalAthletes,
              averageAthletesPerSession |->
                  RoundScaled(totalAthletes, Len(sessionStats), 10),
              totalPointsScored |-> totalPoints,
              consistencyScore  |-> calculateConsistency(avgs)]

calculateTeamPerformanceTrend(sessions, data) ==
    LET sessionStats == sortBySessionDate(CollectSessionStats(sessions, data))
    IN  [sessionStats |-> sessionStats, summary |-> generateSummary(sessionStats)]

(***************************************************************************)
(* calculatePlayerAveragePoints and generatePlayerSummary                  *)
(***************************************************************************)
\* playerStats is an object keyed by athleteId; athlete ids are texts that
\* are not array indices, so Object.values lists the entries in the order
\* the keys were first set.  It is held as the sequence of its entries.
HasPlayer(playerStats, playerId) ==
    \E i \in 1..Len(playerStats) : playerStats[i].playerId = playerId

\* the body of athleteSessionData.forEach
AccumulatePlayer(playerStats, athleteData) ==
    LET playerId   == athleteData.athleteId
        playerName == IF athleteData.athleteName \in {Undefined, ""}
                      THEN "Player " \o playerId
                      ELSE athleteData.athleteName
        points     == parseFloatOrZero(athleteData.points)
        created    == IF HasPlayer(playerStats, playerId) THEN playerStats
                      ELSE Append(playerStats,
                                  [playerId |-> playerId,
                                   playerName |-> playerName,
                                   totalPoints |-> 0,
                                   sessionsParticipated |-> 0,
                                   sessions |-> <<>>])
    IN  IF isParticipating(athleteData)
        THEN [i \in 1..Len(created) |->
                 IF created[i].playerId = playerId
                 THEN [created[i] EXCEPT
                          !.totalPoints = @ + points,
                          !.sessionsParticipated = @ + 1,
                          !.sessions = Append(@,
                              [sessionId   |-> athleteData.sessionId,
                               sessionName |-> athleteData.sessionName,
                               sessionDate |-> athleteData.sessionDate,
                               points      |-> points,
                               attendance  |-> athleteData.attendance])]
                 ELSE created[i]]
        ELSE playerStats

RECURSIVE CollectPlayerStats(_, _)
CollectPlayerStats(playerStats, data) ==
    IF data = <<>> THEN playerStats
    ELSE CollectPlayerStats(AccumulatePlayer(playerStats, Head(data)), Tail(data))

\* PlayerAverageOf without the division by sessionsParticipated
PlayerAverageOf_NoDivision(player) ==
    [playerId    |-> player.playerId,
     playerName  |-> player.playerName,
     totalPoints |-> player.totalPoints,
     sessionsParticipated |-> player.sessionsParticipated,
     averagePoints |-> RoundScaled(player.totalPoints, 1, 100),
     sessions    |-> player.sessions]

\* Object.values(playerStats).map(...)
PlayerAverageOf(player) ==
    [playerId    |-> player.playerId,
     playerName  |-> player.playerName,
     totalPoints |-> player.totalPoints,
     sessionsParticipated |-> player.sessionsParticipated,
     averagePoints |-> IF player.sessionsParticipated > 0
                       THEN RoundScaled(player.totalPoints,
                                        player.sessionsParticipated, 100)
                       ELSE 0,
     sessions    |-> player.sessions]

\* the average sort with its comparator reversed
RECURSIVE InsertByAverage_Ascending(_, _)
InsertByAverage_Ascending(sorted, x) ==
    IF sorted = <<>> THEN <<x>>
    ELSE IF x.averagePoints - Head(sorted).averagePoints < 0 THEN <<x>> \o sorted
    ELSE <<Head(sorted)>> \o InsertByAverage_Ascending(Tail(sorted), x)

RECURSIVE sortByAveragePoints_Ascending(_)
sortByAveragePoints_Ascending(s) ==
    IF s = <<>> THEN <<>>
    ELSE InsertByAverage_Ascending(
             sortByAveragePoints_Ascending(SubSeq(s, 1, Len(s) - 1)), s[Len(s)])

\* playerAverages.sort((a, b) => b.averagePoints - a.averagePoints): stable,
\* descending
RECURSIVE InsertByAverage(_, _)
InsertByAverage(sorted, x) ==
    IF sorted = <<>> THEN <<x>>
    ELSE IF Head(sorted).averagePoints - x.averagePoints < 0 THEN <<x>> \o sorted
    ELSE <<Head(sorted)>> \o InsertByAverage(Tail(sorted), x)

RECURSIVE sortByAveragePoints(_)
sortByAveragePoints(s) ==
    IF s = <<>> THEN <<>>
    ELSE InsertByAverage(sortByAveragePoints(SubSeq(s, 1, Len(s) - 1)), s[Len(s)])

\* generatePlayerSummary taking the last element as topPerformer
generatePlayerSummary_LastIsTop(playerAverages) ==
    IF Len(playerAverages) = 0 THEN Null
    ELSE LET avgs          == Map(playerAverages, LAMBDA p : p.averagePoints)
             totalSessions == SumSeq(Map(playerAverages, LAMBDA p : p.sessionsParticipated))
             totalPoints   == SumSeq(Map(playerAverages, LAMBDA p : p.totalPoints))
         IN  [totalPlayers   |-> Len(playerAverages),
              highestAverage |-> MaxSeq(avgs),
              lowestAverage  |-> MinSeq(avgs),
              overallAverage |-> RoundScaled(SumSeq(avgs), Len(avgs), 1),
              topPerformer   |-> playerAverages[Len(playerAverages)],
              totalPointsAllPlayers |-> totalPoints,
              averageSessionsPerPlayer |->
                  RoundScaled(totalSessions, Len(playerAverages), 10),
              performanceSpread |-> MaxSeq(avgs) - MinSeq(avgs)]

generatePlayerSummary(playerAverages) ==
    IF Len(playerAverages) = 0 THEN Null
    ELSE LET avgs          == Map(playerAverages, LAMBDA p : p.averagePoints)
             totalSessions == SumSeq(Map(playerAverages, LAMBDA p : p.sessionsParticipated))
             totalPoints   == SumSeq(Map(playerAverages, LAMBDA p : p.totalPoints))
         IN  [totalPlayers   |-> Len(playerAverages),
              highestAverage |-> MaxSeq(avgs),
              lowestAverage  |-> MinSeq(avgs),
              overallAverage |-> RoundScaled(SumSeq(avgs), Len(avgs), 1),
              topPerformer   |-> playerAverages[1],
              totalPointsAllPlayers |-> totalPoints,
              averageSessionsPerPlayer |->
                  RoundScaled(totalSessions, Len(playerAverages), 10),
              performanceSpread |-> MaxSeq(avgs) - MinSeq(avgs)]

calculatePlayerAveragePoints(sessions, data) ==
    LET playerAverages ==
            sortByAveragePoints(Map(CollectPlayerStats(<<>>, data), PlayerAverageOf))
    IN  [playerStats |-> playerAverages,
         summary     |-> generatePlayerSummary(playerAverages)]

(***************************************************************************)
(* calculateAthletePerformanceMetrics, generateAthletePerformanceSummary   *)
(***************************************************************************)
\* sortedSessions.map(session => ({...}))
SessionMetricOf(session) ==
    [sessionId   |-> session.sessionId,
     sessionName |-> OrDefault(session.sessionName, "Training Session"),
     sessionDate |-> session.sessionDate,
     points      |-> parseFloatOrZero(session.points),
     rebounds    |-> parseFloatOrZero(session.rebounds),
     assists     |-> parseFloatOrZero(session.assists),
     turnovers   |-> parseFloatOrZero(session.turnovers),
     fouls       |-> parseFloatOrZero(session.fouls),
     rpe         |-> parseFloatOrZero(session.rpe),
     attendance  |-> OrDefault(session.attendance, "Present")]

\* ReduceBest taking a later session of equal points
RECURSIVE ReduceBest_KeepsLast(_, _)
ReduceBest_KeepsLast(best, rest) ==
    IF rest = <<>> THEN best
    ELSE ReduceBest_KeepsLast(IF Head(rest).points >= best.points THEN Head(rest) ELSE best,
                              Tail(rest))

\* sessionMetrics.reduce((best, current) => current.points > best.points ? current : best)
RECURSIVE ReduceBest(_, _)
ReduceBest(best, rest) ==
    IF rest = <<>> THEN best
    ELSE ReduceBest(IF Head(rest).points > best.points THEN Head(rest) ELSE best,
                    Tail(rest))

\* sessionMetrics.reduce((worst, current) => current.points < worst.points ? current : worst)
RECURSIVE ReduceWorst(_, _)
ReduceWorst(worst, rest) ==
    IF rest = <<>> THEN worst
    ELSE ReduceWorst(IF Head(rest).points < worst.points THEN Head(rest) ELSE worst,
                     Tail(rest))

generateAthletePerformanceSummary(sessionMetrics) ==
    IF Len(sessionMetrics) = 0 THEN Null
    ELSE LET sessionCount == Len(sessionMetrics)
             totals == [points    |-> SumSeq(Map(sessionMetrics, LAMBDA s : s.points)),
                        rebounds  |-> SumSeq(Map(sessionMetrics, LAMBDA s : s.rebounds)),
                        assists   |-> SumSeq(Map(sessionMetrics, LAMBDA s : s.assists)),
                        turnovers |-> SumSeq(Map(sessionMetrics, LAMBDA s : s.turnovers)),
                        fouls     |-> SumSeq(Map(sessionMetrics, LAMBDA s : s.fouls)),
                        rpe       |-> SumSeq(Map(sessionMetrics, LAMBDA s : s.rpe))]
             bestPointsSession  == ReduceBest(Head(sessionMetrics), Tail(sessionMetrics))
             worstPointsSession == ReduceWorst(Head(sessionMetrics), Tail(sessionMetrics))
         IN  [totalSessions |-> sessionCount,
              averages |->
                  [points    |-> RoundScaled(totals.points, sessionCount, 100),
                   rebounds  |-> RoundScaled(totals.rebounds, sessionCount, 100),
                   assists   |-> RoundScaled(totals.assists, sessionCount, 100),
                   turnovers |-> RoundScaled(totals.turnovers, sessionCount, 100),
                   fouls     |-> RoundScaled(totals.fouls, sessionCount, 100),
                   rpe       |-> RoundScaled(totals.rpe, sessionCount, 100)],
              totals |-> totals,
              bestPerformance |->
                  [session |-> bestPointsSession.sessionName,
                   points  |-> bestPointsSession.points,
                   date    |-> bestPointsSession.sessionDate],
              worstPerformance |->
                  [session |-> worstPointsSession.sessionName,
                   points  |-> worstPointsSession.points,
                   date    |-> worstPointsSession.sessionDate],
              consistency |->
                  [points   |-> calculateConsistency(Map(sessionMetrics, LAMBDA s : s.points)),
                   rebounds |-> calculateConsistency(Map(sessionMetrics, LAMBDA s : s.rebounds)),
                   assists  |-> calculateConsistency(Map(sessionMetrics, LAMBDA s : s.assists))]]

\* calculateAthletePerformanceMetrics without the attendance filter
calculateAthletePerformanceMetrics_NoFilter(data) ==
    IF Len(data) = 0 THEN [sessionMetrics |-> <<>>, summary |-> Null]
    ELSE LET sortedSessions == sortBySessionDate(data)
             sessionMetrics == Map(sortedSessions, SessionMetricOf)
         IN  [sessionMetrics |-> sessionMetrics,
              summary |-> generateAthletePerformanceSummary(sessionMetrics)]

\* calculateAthletePerformanceMetrics without the sort by date
calculateAthletePerformanceMetrics_Unsorted(data) ==
    IF Len(data) = 0 THEN [sessionMetrics |-> <<>>, summary |-> Null]
    ELSE LET sortedSessions == SelectSeq(data, isParticipating)
             sessionMetrics == Map(sortedSessions, SessionMetricOf)
         IN  [sessionMetrics |-> sessionMetrics,
              summary |-> generateAthletePerformanceSummary(sessionMetrics)]

calculateAthletePerformanceMetrics(data) ==
    IF Len(data) = 0 THEN [sessionMetrics |-> <<>>, summary |-> Null]
    ELSE LET sortedSessions == sortBySessionDate(SelectSeq(data, isParticipating))
             sessionMetrics == Map(sortedSessions, SessionMetricOf)
         IN  [sessionMetrics |-> sessionMetrics,
              summary |-> generateAthletePerformanceSummary(sessionMetrics)]

(***************************************************************************)
(* calculateYAxisRange                                                     *)
(*                                                                         *)
(* The data points are averages or metric values with at most 2 decimals,  *)
(* given in hundredths.  A tenth of their range is a whole number of       *)
(* thousandths, so the method is computed in thousandths, 0.5 being 500,   *)
(* and returns min, max and stepSize in thousandths.                       *)
(***************************************************************************)
\* Math.floor(x / stepSize) * stepSize
FloorToStep(x, stepSize) == (x \div stepSize) * stepSize

\* Math.ceil(x / stepSize) * stepSize
CeilToStep(x, stepSize) == -(((-x) \div stepSize) * stepSize)

\* calculateYAxisRange returning the padded max as it is
calculateYAxisRange_NoSnapUp(data) ==
    IF Len(data) = 0 THEN [min |-> 0, max |-> 10000, stepSize |-> 1000]
    ELSE LET minValue == 10 * MinSeq(data)
             maxValue == 10 * MaxSeq(data)
             range    == maxValue - minValue
             padding  == IF range \div 10 > 500 THEN range \div 10 ELSE 500
             adjustedMin == IF minValue - padding > 0 THEN minValue - padding ELSE 0
             adjustedMax == maxValue + padding
             adjustedRange == adjustedMax - adjustedMin
             stepSize == IF adjustedRange <= 5000 THEN 500
                         ELSE IF adjustedRange <= 10000 THEN 1000
                         ELSE IF adjustedRange <= 25000 THEN 2000
                         ELSE IF adjustedRange <= 50000 THEN 5000
                         ELSE 10000
         IN  [min      |-> FloorToStep(adjustedMin, stepSize),
              max      |-> adjustedMax,
              stepSize |-> stepSize]

\* calculateYAxisRange padding by a tenth of the range only
calculateYAxisRange_NoMinimumPadding(data) ==
    IF Len(data) = 0 THEN [min |-> 0, max |-> 10000, stepSize |-> 1000]
    ELSE LET minValue == 10 * MinSeq(data)
             maxValue == 10 * MaxSeq(data)
             range    == maxValue - minValue
             padding  == range \div 10
             adjustedMin == IF minValue - padding > 0 THEN minValue - padding ELSE 0
             adjustedMax == maxValue + padding
             adjustedRange == adjustedMax - adjustedMin
             stepSize == IF adjustedRange <= 5000 THEN 500
                         ELSE IF adjustedRange <= 10000 THEN 1000
                         ELSE IF adjustedRange <= 25000 THEN 2000
                         ELSE IF adjustedRange <= 50000 THEN 5000
                         ELSE 10000
         IN  [min      |-> FloorToStep(adjustedMin, stepSize),
              max      |-> CeilToStep(adjustedMax, stepSize),
              stepSize |-> stepSize]

calculateYAxisRange(data) ==
    IF Len(data) = 0 THEN [min |-> 0, max |-> 10000, stepSize |-> 1000]
    ELSE LET minValue == 10 * MinSeq(data)
             maxValue == 10 * MaxSeq(data)
             range    == maxValue - minValue
             \* Math.max(range * 0.1, 0.5)
             padding  == IF range \div 10 > 500 THEN range \div 10 ELSE 500
             \* Math.max(0, minValue - padding)
             adjustedMin == IF minValue - padding > 0 THEN minValue - padding ELSE 0
             adjustedMax == maxValue + padding
             adjustedRange == adjustedMax - adjustedMin
             stepSize == IF adjustedRange <= 5000 THEN 500
                         ELSE IF adjustedRange <= 10000 THEN 1000
                         ELSE IF adjustedRange <= 25000 THEN 2000
                         ELSE IF adjustedRange <= 50000 THEN 5000
                         ELSE 10000
         IN  [min      |-> FloorToStep(adjustedMin, stepSize),
              max      |-> CeilToStep(adjustedMax, stepSize),
              stepSize |-> stepSize]

(***************************************************************************)
(* Binary64 numbers.                                                       *)
(*                                                                         *)
(* calculateTrendLine is computed in the arithmetic of JavaScript numbers, *)
(* IEEE-754 binary64 with round-to-nearest, ties-to-even, because what its *)
(* result is compared with is the input itself.  A natural number is a     *)
(* sequence of digits to the base 2^15, least significant first, without   *)
(* leading zeros.  A double is [neg, m, e] and stands for                  *)
(* (-1)^neg * m * 2^e with a significand m of exactly 53 bits, or is Zero. *)
(* The values stay far from the exponent limits, so overflow and subnormal *)
(* numbers do not occur; the sign of zero is not kept.                     *)
(***************************************************************************)
SignificandBits == 53
DigitBits == 15
Base == 2^DigitBits

\* const name = value; followed by the statements Then, which use the name
Const(value, Then(_)) == Then(value)

RECURSIVE DigitsOf(_)
DigitsOf(n) == IF n = 0 THEN <<>> ELSE <<n % Base>> \o DigitsOf(n \div Base)

RestOf(a)  == IF a = <<>> THEN <<>> ELSE Tail(a)
DigitOf(a) == IF a = <<>> THEN 0 ELSE Head(a)

\* a without its leading (most significant) zeros
RECURSIVE Trim(_)
Trim(a) ==
    IF a = <<>> THEN a
    ELSE IF a[Len(a)] = 0 THEN Trim(SubSeq(a, 1, Len(a) - 1)) ELSE a

\* a + b + carry
RECURSIVE DigitsAdd(_, _, _)
DigitsAdd(a, b, carry) ==
    IF a = <<>> /\ b = <<>> THEN (IF carry = 1 THEN <<1>> ELSE <<>>)
    ELSE LET t == DigitOf(a) + DigitOf(b) + carry
         IN  <<t % Base>> \o DigitsAdd(RestOf(a), RestOf(b), t \div Base)

\* a - b - borrow, for a >= b + borrow, with its leading zeros
RECURSIVE DigitsSubtract(_, _, _)
DigitsSubtract(a, b, borrow) ==
    IF a = <<>> THEN <<>>
    ELSE LET t == DigitOf(a) - DigitOf(b) - borrow
         IN  <<t % Base>> \o DigitsSubtract(RestOf(a), RestOf(b), IF t < 0 THEN 1 ELSE 0)

\* a < b
DigitsLess(a, b) ==
    \/ Len(a) < Len(b)
    \/ /\ Len(a) = Len(b)
       /\ \E i \in 1..Len(a) :
             /\ a[i] < b[i]
             /\ \A j \in (i + 1)..Len(a) : a[j] = b[j]

\* a * n + carry for natural numbers n, carry < Base
RECURSIVE DigitsTimes(_, _, _)
DigitsTimes(a, n, carry) ==
    IF a = <<>> THEN DigitsOf(carry)
    ELSE LET t == Head(a) * n + carry
         IN  <<t % Base>> \o DigitsTimes(Tail(a), n, t \div Base)

\* long division of the digits i..1 of a by d, 0 < d <= Base, r being the
\* remainder of the digits above: the quotient digits and the last remainder
RECURSIVE DigitsDivide(_, _, _, _)
DigitsDivide(a, d, i, r) ==
    IF i = 0 THEN [q |-> <<>>, r |-> r]
    ELSE LET cur  == r * Base + a[i]
             rest == DigitsDivide(a, d, i - 1, cur % d)
         IN  [q |-> Append(rest.q, cur \div d), r |-> rest.r]

\* the number of bits of a
RECURSIVE BitLengthOf(_)
BitLengthOf(n) == IF n = 0 THEN 0 ELSE 1 + BitLengthOf(n \div 2)

BitLength(a) ==
    IF a = <<>> THEN 0 ELSE DigitBits * (Len(a) - 1) + BitLengthOf(a[Len(a)])

\* a * 2^k
ShiftLeft(a, k) ==
    IF a = <<>> THEN a
    ELSE [i \in 1..(k \div DigitBits) |-> 0]
         \o Trim(DigitsTimes(a, 2^(k % DigitBits), 0))

\* a \div 2^k, and whether a bit that is 1 was shifted out
ShiftRight(a, k) ==
    LET whole == IF k \div DigitBits < Len(a) THEN k \div DigitBits ELSE Len(a)
        upper == SubSeq(a, whole + 1, Len(a))
        qr    == DigitsDivide(upper, 2^(k % DigitBits), Len(upper), 0)
    IN  [q    |-> Trim(qr.q),
         lost |-> qr.r > 0 \/ \E i \in 1..whole : a[i] > 0]

Zero == [neg |-> FALSE, m |-> <<>>, e |-> 0]

\* the double nearest to (-1)^neg * (m + f) * 2^e, ties to the even
\* significand, where 0 <= f < 1 and sticky exactly when f > 0; m has at
\* least 55 bits when sticky
RoundToDouble(neg, m, e, sticky) ==
    IF m = <<>> THEN Zero
    ELSE IF BitLength(m) <= SignificandBits
    THEN [neg |-> neg,
          m   |-> ShiftLeft(m, SignificandBits - BitLength(m)),
          e   |-> e - (SignificandBits - BitLength(m))]
    ELSE LET k == BitLength(m) - SignificandBits
         IN  Const(ShiftRight(m, k - 1), LAMBDA upto :             \* 54 bits
             Const(ShiftRight(upto.q, 1).q, LAMBDA kept :
             Const(DigitsAdd(kept, <<1>>, 0), LAMBDA next :
             LET half  == upto.q[1] % 2 = 1       \* the first bit left out
                 below == sticky \/ upto.lost
                 up    == half /\ (below \/ kept[1] % 2 = 1)
             IN  IF ~up THEN [neg |-> neg, m |-> kept, e |-> e + k]
                 ELSE IF BitLength(next) > SignificandBits
                 THEN [neg |-> neg, m |-> ShiftRight(next, 1).q, e |-> e + k + 1]
                 ELSE [neg |-> neg, m |-> next, e |-> e + k])))

\* Number(k) for an integer k
DoubleOf(k) == RoundToDouble(k < 0, DigitsOf(IF k < 0 THEN -k ELSE k), 0, FALSE)

\* x + y
DoubleAdd(x, y) ==
    IF x.m = <<>> /\ y.m = <<>> THEN Zero
    ELSE IF x.m = <<>> THEN y
    ELSE IF y.m = <<>> THEN x
    ELSE LET e  == IF x.e < y.e THEN x.e ELSE y.e
             xm == ShiftLeft(x.m, x.e - e)
             ym == ShiftLeft(y.m, y.e - e)
         IN  IF x.neg = y.neg THEN RoundToDouble(x.neg, DigitsAdd(xm, ym, 0), e, FALSE)
             ELSE IF DigitsLess(xm, ym)
             THEN RoundToDouble(y.neg, Trim(DigitsSubtract(ym, xm, 0)), e, FALSE)
             ELSE RoundToDouble(x.neg, Trim(DigitsSubtract(xm, ym, 0)), e, FALSE)

\* x - y
DoubleSubtract(x, y) == DoubleAdd(x, [y EXCEPT !.neg = ~y.neg])

\* x * n for a natural number n < Base
DoubleTimes(x, n) ==
    IF n = 0 THEN Zero
    ELSE RoundToDouble(x.neg, Trim(DigitsTimes(x.m, n, 0)), x.e, FALSE)

\* x / d for a natural number d, 0 < d < Base: the quotient to 75 more bits
\* than x has, rounded
DoubleDivide(x, d) ==
    LET wide == ShiftLeft(x.m, 5 * DigitBits)
        qr   == DigitsDivide(wide, d, Len(wide), 0)
    IN  RoundToDouble(x.neg, Trim(qr.q), x.e - 5 * DigitBits, qr.r > 0)

\* Math.round(x * 100) / 100 for a value of h hundredths
Hundredths(h) == DoubleDivide(DoubleOf(h), 100)

(***************************************************************************)
(* calculateTrendLine                                                      *)
(***************************************************************************)
\* dataPoints.reduce((a, b) => a + b, 0), from index i on
RECURSIVE ReduceSumY(_, _, _)
ReduceSumY(data, i, a) ==
    IF i > Len(data) THEN a
    ELSE ReduceSumY(data, i + 1, DoubleAdd(a, data[i]))

\* xValues.reduce((sum, x, i) => sum + x * dataPoints[i], 0), from index i on
RECURSIVE ReduceSumXY(_, _, _)
ReduceSumXY(data, i, sum) ==
    IF i > Len(data) THEN sum
    ELSE ReduceSumXY(data, i + 1, DoubleAdd(sum, DoubleTimes(data[i], i - 1)))

\* calculateTrendLine with the mean as intercept
calculateTrendLine_MeanIntercept(data) ==
    IF Len(data) < 2 THEN data
    ELSE LET n     == Len(data)
             sumX  == SumSeq([i \in 1..n |-> i - 1])
             sumY  == ReduceSumY(data, 1, Zero)
             sumXY == ReduceSumXY(data, 1, Zero)
             sumXX == SumSeq([i \in 1..n |-> (i - 1) * (i - 1)])
             slope == DoubleDivide(DoubleSubtract(DoubleTimes(sumXY, n),
                                                  DoubleTimes(sumY, sumX)),
                                   n * sumXX - sumX * sumX)
             intercept == DoubleDivide(sumY, n)
         IN  [i \in 1..n |-> DoubleAdd(DoubleTimes(slope, i - 1), intercept)]

calculateTrendLine(data) ==
    IF Len(data) < 2 THEN data
    ELSE LET n     == Len(data)
             \* xValues[i] = i - 1
             sumX  == SumSeq([i \in 1..n |-> i - 1])
             sumY  == ReduceSumY(data, 1, Zero)
             sumXY == ReduceSumXY(data, 1, Zero)
             sumXX == SumSeq([i \in 1..n |-> (i - 1) * (i - 1)])
             slope == DoubleDivide(DoubleSubtract(DoubleTimes(sumXY, n),
                                                  DoubleTimes(sumY, sumX)),
                                   n * sumXX - sumX * sumX)
             intercept == DoubleDivide(DoubleSubtract(sumY, DoubleTimes(slope, sumX)), n)
         IN  [i \in 1..n |-> DoubleAdd(DoubleTimes(slope, i - 1), intercept)]

(***************************************************************************)
(* Dates.                                                                  *)
(*                                                                         *)
(* A Date is its time value in minutes, counted from 1 January 2024 00:00  *)
(* UTC, a Monday.  The local getters read it localOffset minutes later;    *)
(* the zone has no daylight saving.  The calendar covers December 2023 to  *)
(* December 2025.                                                          *)
(***************************************************************************)
MinutesPerDay == 1440

\* the lengths of the months from December 2023 on, and the local day on
\* which the first of them starts
MonthLengths ==
    <<31, 31, 29, 31, 30, 31, 30, 31, 31, 30, 31, 30, 31,
          31, 28, 31, 30, 31, 30, 31, 31, 30, 31, 30, 31>>
FirstCalendarDay == -31

MonthNames == <<"Jan", "Feb", "Mar", "Apr", "May", "Jun",
                "Jul", "Aug", "Sep", "Oct", "Nov", "Dec">>

\* the local calendar day of a date, day 0 being 1 January 2024
LocalDay(date) == (date + localOffset) \div MinutesPerDay

\* the month of MonthLengths that holds the day, and the day it starts on
RECURSIVE CalendarMonth(_, _, _)
CalendarMonth(day, k, start) ==
    IF day < start + MonthLengths[k] THEN [k |-> k, start |-> start]
    ELSE CalendarMonth(day, k + 1, start + MonthLengths[k])

\* Date.prototype.getFullYear, getMonth (0 to 11), getDate, getDay (0 = Sunday)
getFullYear(date) == 2023 + (CalendarMonth(LocalDay(date), 1, FirstCalendarDay).k + 10) \div 12
getMonth(date) == (CalendarMonth(LocalDay(date), 1, FirstCalendarDay).k + 10) % 12
getDate(date) == LocalDay(date) - CalendarMonth(LocalDay(date), 1, FirstCalendarDay).start + 1
getDay(date) == (LocalDay(date) + 1) % 7

\* date.toLocaleDateString('en-US', { month: 'short', day: 'numeric' })
ShortDate(date) == MonthNames[getMonth(date) + 1] \o " " \o ToString(getDate(date))

\* date.toLocaleDateString('en-US', { month: 'short', year: 'numeric' })
ShortMonth(date) == MonthNames[getMonth(date) + 1] \o " " \o ToString(getFullYear(date))

\* date.toISOString().split('T')[0]: the calendar day in UTC, which the
\* text names one to one
ISODate(date) == date \div MinutesPerDay

(***************************************************************************)
(* generateSmartLabels, groupByWeek, groupByMonth, getWeekStart,           *)
(* getMaxXTicks                                                            *)
(***************************************************************************)
\* d.setDate(diff) moves the local day and keeps the local time of day
getWeekStart(date) ==
    LET day  == getDay(date)
        diff == getDate(date) - day + (IF day = 0 THEN -6 ELSE 1)
    IN  date + (diff - getDate(date)) * MinutesPerDay

\* parsedData.forEach of groupByWeek from element i on; currentWeek is the
\* last element of weeks
RECURSIVE groupByWeekFrom(_, _, _)
groupByWeekFrom(data, i, weeks) ==
    IF i > Len(data) THEN weeks
    ELSE LET session   == data[i]
             weekStart == getWeekStart(session.date)
             weekKey   == ISODate(weekStart)
         IN  IF weeks = <<>> \/ weeks[Len(weeks)].key # weekKey
             THEN groupByWeekFrom(data, i + 1,
                      Append(weeks, [key |-> weekKey, weekStart |-> weekStart,
                                     sessions |-> <<session>>]))
             ELSE groupByWeekFrom(data, i + 1,
                      [weeks EXCEPT ![Len(weeks)].sessions = Append(@, session)])

groupByWeek(data) == groupByWeekFrom(data, 1, <<>>)

\* parsedData.forEach of groupByMonth from element i on
RECURSIVE groupByMonthFrom(_, _, _)
groupByMonthFrom(data, i, months) ==
    IF i > Len(data) THEN months
    ELSE LET session  == data[i]
             monthKey == ToString(getFullYear(session.date)) \o "-"
                         \o ToString(getMonth(session.date))
         IN  IF months = <<>> \/ months[Len(months)].key # monthKey
             THEN groupByMonthFrom(data, i + 1,
                      Append(months, [key |-> monthKey,
                                      year |-> getFullYear(session.date),
                                      month |-> getMonth(session.date),
                                      sessions |-> <<session>>]))
             ELSE groupByMonthFrom(data, i + 1,
                      [months EXCEPT ![Len(months)].sessions = Append(@, session)])

groupByMonth(data) == groupByMonthFrom(data, 1, <<>>)

\* weekGroups.forEach from weekIndex on: the labels and ticks pushed
RECURSIVE LabelWeeks(_, _, _, _)
LabelWeeks(weekGroups, weekIndex, currentIndex, pushed) ==
    IF weekIndex >= Len(weekGroups) THEN pushed
    ELSE LET week == weekGroups[weekIndex + 1]
             labels == [k \in 1..Len(week.sessions) |->
                           IF k = 1 THEN "Week of " \o ShortDate(week.sessions[k].date)
                           ELSE ""]
             ticks  == IF weekIndex % 2 = 0 THEN <<currentIndex>> ELSE <<>>
         IN  LabelWeeks(weekGroups, weekIndex + 1, currentIndex + Len(week.sessions),
                        [labels      |-> pushed.labels \o labels,
                         tickIndices |-> pushed.tickIndices \o ticks])

\* monthGroups.forEach from monthIndex on: the labels and ticks pushed
RECURSIVE LabelMonths(_, _, _, _)
LabelMonths(monthGroups, monthIndex, currentIndex, pushed) ==
    IF monthIndex >= Len(monthGroups) THEN pushed
    ELSE LET month == monthGroups[monthIndex + 1]
             labels == [k \in 1..Len(month.sessions) |->
                           IF k = 1 THEN ShortMonth(month.sessions[k].date) ELSE ""]
         IN  LabelMonths(monthGroups, monthIndex + 1, currentIndex + Len(month.sessions),
                         [labels      |-> pushed.labels \o labels,
                          tickIndices |-> Append(pushed.tickIndices, currentIndex)])

\* the indices 0 .. dataCount - 1
Indices(dataCount) == [i \in 1..dataCount |-> i - 1]

\* generateSmartLabels pushing the last index of a medium dataset on its own
generateSmartLabels_LastPushedTwice(data) ==
    LET dataCount == Len(data) IN
    IF dataCount <= 10
    THEN [labels      |-> [i \in 1..dataCount |-> ShortDate(data[i].date)],
          tickIndices |-> Indices(dataCount)]
    ELSE IF dataCount <= 20
    THEN [labels      |-> [i \in 1..dataCount |-> ShortDate(data[i].date)],
          tickIndices |-> Append(SelectSeq(Indices(dataCount), LAMBDA index : index % 2 = 0),
                                 dataCount - 1)]
    ELSE IF dataCount <= 50
    THEN LabelWeeks(groupByWeek(data), 0, 0, [labels |-> <<>>, tickIndices |-> <<>>])
    ELSE LabelMonths(groupByMonth(data), 0, 0, [labels |-> <<>>, tickIndices |-> <<>>])

generateSmartLabels(data) ==
    LET dataCount == Len(data) IN
    IF dataCount <= 10
    THEN [labels      |-> [i \in 1..dataCount |-> ShortDate(data[i].date)],
          tickIndices |-> Indices(dataCount)]
    ELSE IF dataCount <= 20
    THEN [labels      |-> [i \in 1..dataCount |-> ShortDate(data[i].date)],
          tickIndices |-> SelectSeq(Indices(dataCount),
                              LAMBDA index : index % 2 = 0 \/ index = dataCount - 1)]
    ELSE IF dataCount <= 50
    THEN LabelWeeks(groupByWeek(data), 0, 0, [labels |-> <<>>, tickIndices |-> <<>>])
    ELSE LabelMonths(groupByMonth(data), 0, 0, [labels |-> <<>>, tickIndices |-> <<>>])

\* getMaxXTicks with strict thresholds
getMaxXTicks_StrictThresholds(dataCount) ==
    IF dataCount < 10 THEN dataCount
    ELSE IF dataCount < 20 THEN 10
    ELSE IF dataCount < 50 THEN 8
    ELSE 6

getMaxXTicks(dataCount) ==
    IF dataCount <= 10 THEN dataCount
    ELSE IF dataCount <= 20 THEN 10
    ELSE IF dataCount <= 50 THEN 8
    ELSE 6

(***************************************************************************)
(* createChartConfig and createAthleteMetricChart.  A sessionDate is the   *)
(* number of a day and stands for its ISO date text, which new Date reads  *)
(* as midnight UTC of that day.                                            *)
(***************************************************************************)
\* a sessionDate that none of the three parse attempts reads
InvalidDate == -1

\* the date of one stat: new Date(stat.sessionDate), and new Date(), the
\* current time, for a date that is missing or not read
DateOfSession(sessionDate, now) ==
    IF sessionDate = NoDate \/ sessionDate = InvalidDate THEN now
    ELSE sessionDate * MinutesPerDay

\* parsedData.sort((a, b) => a.date - b.date): stable, ascending
RECURSIVE InsertByParsedDate(_, _)
InsertByParsedDate(sorted, x) ==
    IF sorted = <<>> THEN <<x>>
    ELSE IF x.date - Head(sorted).date < 0 THEN <<x>> \o sorted
    ELSE <<Head(sorted)>> \o InsertByParsedDate(Tail(sorted), x)

RECURSIVE sortByParsedDate(_)
sortByParsedDate(s) ==
    IF s = <<>> THEN <<>>
    ELSE InsertByParsedDate(sortByParsedDate(SubSeq(s, 1, Len(s) - 1)), s[Len(s)])

\* sessionStats.map(stat => ({date, sessionName, ...}))
ParsedStatOf(stat, now) ==
    [date        |-> DateOfSession(stat.sessionDate, now),
     sessionName |-> stat.sessionName,
     sessionId   |-> stat.sessionId,
     avgPointsPerPlayer    |-> stat.avgPointsPerPlayer,
     totalPoints           |-> stat.totalPoints,
     participatingAthletes |-> stat.participatingAthletes]

\* console.warn('Could not parse date, using fallback') for each such stat
DateWarnings(stats) ==
    Map(SelectSeq(stats, LAMBDA stat : stat.sessionDate \in {NoDate, InvalidDate}),
        LAMBDA stat : [warn        |-> "Could not parse date, using fallback",
                       sessionName |-> stat.sessionName])

\* createChartConfig adding the trend line from six points on
createChartConfig_TrendAboveFive(stats, now) ==
    LET parsed      == sortByParsedDate(Map(stats, LAMBDA stat : ParsedStatOf(stat, now)))
        smart       == generateSmartLabels(parsed)
        points      == Map(parsed, LAMBDA item : item.avgPointsPerPlayer)
        trendLine   == calculateTrendLine(Map(points, Hundredths))
        yAxisConfig == calculateYAxisRange(points)
        main        == [label |-> "Average Points per Player", data |-> points]
    IN  [labels      |-> smart.labels,
         tickIndices |-> smart.tickIndices,
         datasets    |-> IF Len(points) > 5
                         THEN <<main, [label |-> "Trend", data |-> trendLine]>>
                         ELSE <<main>>,
         maxTicksLimit |-> getMaxXTicks(Len(parsed)),
         y           |-> yAxisConfig]

\* the Chart.js configuration as far as it depends on the stats: labels,
\* the ticks of the x axis, datasets (label and data) and the y axis; the
\* data of the main series in hundredths, of the trend in binary64
createChartConfig(stats, now) ==
    LET parsed      == sortByParsedDate(Map(stats, LAMBDA stat : ParsedStatOf(stat, now)))
        smart       == generateSmartLabels(parsed)
        points      == Map(parsed, LAMBDA item : item.avgPointsPerPlayer)
        trendLine   == calculateTrendLine(Map(points, Hundredths))
        yAxisConfig == calculateYAxisRange(points)
        main        == [label |-> "Average Points per Player", data |-> points]
    IN  [labels      |-> smart.labels,
         tickIndices |-> smart.tickIndices,
         datasets    |-> IF Len(points) >= 5
                         THEN <<main, [label |-> "Trend", data |-> trendLine]>>
                         ELSE <<main>>,
         maxTicksLimit |-> getMaxXTicks(Len(parsed)),
         y           |-> yAxisConfig]

\* session[metric]
MetricOf(session, name) ==
    CASE name = "points"    -> session.points
      [] name = "rebounds"  -> session.rebounds
      [] name = "assists"   -> session.assists
      [] name = "turnovers" -> session.turnovers
      [] name = "fouls"     -> session.fouls
      [] name = "rpe"       -> session.rpe

\* metricLabels[metric]
MetricLabel(name) ==
    CASE name = "points"    -> "Points Scored"
      [] name = "rebounds"  -> "Rebounds"
      [] name = "assists"   -> "Assists"
      [] name = "turnovers" -> "Turnovers"
      [] name = "fouls"     -> "Fouls"
      [] name = "rpe"       -> "RPE (Effort Level)"

\* sessionMetrics.map(session => ({date, sessionName, value, ...session}))
ParsedMetricOf(session, name, now) ==
    [date        |-> DateOfSession(session.sessionDate, now),
     sessionName |-> session.sessionName,
     value       |-> MetricOf(session, name),
     sessionId   |-> session.sessionId,
     attendance  |-> session.attendance]

\* the configuration as far as it depends on the metrics; the values of
\* the series are whole numbers, the y axis is in thousandths
createAthleteMetricChart(metrics, name, now) ==
    LET parsed == sortByParsedDate(
                      Map(metrics, LAMBDA session : ParsedMetricOf(session, name, now)))
        smart  == generateSmartLabels(parsed)
        points == Map(parsed, LAMBDA item : item.value)
        range  == calculateYAxisRange(Map(points, LAMBDA value : 100 * value))
        yAxisConfig == IF name = "rpe"
                       THEN [min |-> 0, max |-> 10000, stepSize |-> 1000]
                       ELSE range
    IN  [labels      |-> smart.labels,
         tickIndices |-> smart.tickIndices,
         datasets    |-> << [label |-> MetricLabel(name), data |-> points] >>,
         maxTicksLimit |-> getMaxXTicks(Len(parsed)),
         y           |-> yAxisConfig]

(***************************************************************************)
(* Objects.  Arrays, Date objects and the analytics object are held by     *)
(* reference.  The objects that exist are a sequence, a reference is an     *)
(* index into it, and a new object is appended.  For each method the        *)
(* operator <method>Objects gives the objects after a call: filter, map,   *)
(* Object.values, Array.from, [] and new Date make a new object; push,     *)
(* sort, setDate and an assignment to a property write to the object they  *)
(* are applied to, and forEach, reduce and the spread read only.  The      *)
(* elements of the arrays are held by value: no method assigns to a        *)
(* property of an element.  An array or Date parameter is a reference.     *)
(***************************************************************************)
Allocate(objects, value) == Append(objects, value)
Write(objects, ref, value) == [objects EXCEPT ![ref] = value]

\* the elements of an array of dated points, each with its date's value
Dated(objects, data) ==
    [i \in 1..Len(objects[data]) |->
        [objects[data][i] EXCEPT !.date = objects[objects[data][i].date]]]

\* new Date objects for the dates of items, and a new array of the items
\* that holds them
AllocateDated(objects, items) ==
    (objects \o [i \in 1..Len(items) |-> items[i].date])
        \o << [i \in 1..Len(items) |-> [items[i] EXCEPT !.date = Len(objects) + i]] >>

\* array.sort((a, b) => a.date - b.date) on an array of dated points
SortDatedObjects(objects, data) ==
    LET tagged == [i \in 1..Len(objects[data]) |->
                      [date |-> objects[objects[data][i].date], item |-> objects[data][i]]]
    IN  Write(objects, data, Map(sortByParsedDate(tagged), LAMBDA t : t.item))

calculateTeamPerformanceTrendObjects(objects, sessions, data) ==
    LET made         == Allocate(objects, <<>>)             \* const sessionStats = []
        sessionStats == Len(made)
        pushed       == Write(made, sessionStats,                \* sessionStats.push
                              CollectSessionStats(objects[sessions], objects[data]))
    IN  Write(pushed, sessionStats, sortBySessionDate(pushed[sessionStats]))

calculatePlayerAveragePointsObjects(objects, data) ==
    Const(Allocate(objects, CollectPlayerStats(<<>>, objects[data])), LAMBDA playerStats :
    Const(Allocate(playerStats, Map(playerStats[Len(playerStats)],
                                    PlayerAverageOf)), LAMBDA playerAverages :
    Write(playerAverages, Len(playerAverages),
          sortByAveragePoints(playerAverages[Len(playerAverages)]))))

\* calculateAthletePerformanceMetrics sorting athleteSessionData itself
calculateAthletePerformanceMetricsObjects_SortsArgument(objects, data) ==
    IF Len(objects[data]) = 0 THEN objects
    ELSE LET sorted   == Write(objects, data, sortBySessionDate(objects[data]))
             filtered == Allocate(sorted, SelectSeq(sorted[data], isParticipating))
         IN  Allocate(filtered, Map(filtered[Len(filtered)], SessionMetricOf))

calculateAthletePerformanceMetricsObjects(objects, data) ==
    IF Len(objects[data]) = 0 THEN objects
    ELSE LET filtered       == Allocate(objects, SelectSeq(objects[data], isParticipating))
             sortedSessions == Len(filtered)       \* sort returns the array it sorts
             sorted         == Write(filtered, sortedSessions,
                                     sortBySessionDate(filtered[sortedSessions]))
         IN  Allocate(sorted, Map(sorted[sortedSessions], SessionMetricOf))

\* the object {min, max, stepSize} returned is the last one allocated
calculateYAxisRangeObjects(objects, data) ==
    Allocate(objects, calculateYAxisRange(objects[data]))

\* with fewer than 2 points the array returned is dataPoints itself
calculateTrendLineObjects(objects, data) ==
    IF Len(objects[data]) < 2 THEN objects
    ELSE LET xValues == Allocate(objects, Indices(Len(objects[data])))
         IN  Allocate(xValues, calculateTrendLine(Map(objects[data], Hundredths)))

getWeekStartObjects(objects, date) ==
    Const(Allocate(objects, objects[date]), LAMBDA copied :    \* const d = new Date(date)
    Const(Write(copied, Len(copied),                           \* d.setDate(diff)
                getWeekStart(copied[Len(copied)])), LAMBDA set :
    Allocate(set, set[Len(copied)])))                          \* new Date(...)

\* parsedData.forEach of groupByWeek from element i on
RECURSIVE groupByWeekObjectsFrom(_, _, _)
groupByWeekObjectsFrom(objects, data, i) ==
    IF i > Len(objects[data]) THEN objects
    ELSE groupByWeekObjectsFrom(getWeekStartObjects(objects, objects[data][i].date),
                                data, i + 1)

\* the array weeks, which holds the groups and their arrays of sessions,
\* is the last object allocated
groupByWeekObjects(objects, data) ==
    Const(Allocate(objects, <<>>), LAMBDA weeks :              \* const weeks = []
    Const(groupByWeekObjectsFrom(weeks, data, 1), LAMBDA each :
    Write(each, Len(weeks), groupByWeek(Dated(each, data)))))

groupByMonthObjects(objects, data) ==
    LET months == Allocate(objects, <<>>)                  \* const months = []
    IN  Write(months, Len(months), groupByMonth(Dated(months, data)))

generateSmartLabelsObjects(objects, data) ==
    LET dataCount   == Len(objects[data])
        labels      == Len(objects) + 1                    \* const labels = []
        tickIndices == Len(objects) + 2                    \* const tickIndices = []
    IN  Const(Allocate(Allocate(objects, <<>>), <<>>), LAMBDA made :
        Const(IF dataCount <= 20 THEN made
              ELSE IF dataCount <= 50 THEN groupByWeekObjects(made, data)
              ELSE groupByMonthObjects(made, data), LAMBDA grouped :
        Const(generateSmartLabels(Dated(grouped, data)), LAMBDA smart :
        Write(Write(grouped, labels, smart.labels),        \* labels.push
              tickIndices, smart.tickIndices))))           \* tickIndices.push

createChartConfigObjects(objects, stats, now) ==
    Const(AllocateDated(objects,                           \* sessionStats.map
              Map(objects[stats], LAMBDA stat : ParsedStatOf(stat, now))), LAMBDA mapped :
    Const(SortDatedObjects(mapped, Len(mapped)), LAMBDA sorted :       \* parsedData.sort
    Const(generateSmartLabelsObjects(sorted, Len(mapped)), LAMBDA labelled :
    Const(Allocate(labelled,                               \* parsedData.map
              Map(Dated(labelled, Len(mapped)),
                  LAMBDA item : item.avgPointsPerPlayer)), LAMBDA points :
    Const(calculateTrendLineObjects(points, Len(points)), LAMBDA trend :
    Const(calculateYAxisRangeObjects(trend, Len(points)), LAMBDA ranged :
    Const(Allocate(ranged,                                 \* const datasets = [{...}]
              << [label |-> "Average Points per Player",
                  data  |-> Len(points)] >>), LAMBDA made :
    IF Len(made[Len(points)]) >= 5
    THEN Write(made, Len(made),                            \* datasets.push
               Append(made[Len(made)],
                      [label |-> "Trend",
                       data  |-> IF Len(trend[Len(points)]) < 2
                                 THEN Len(points) ELSE Len(trend)]))
    ELSE made)))))))

createAthleteMetricChartObjects(objects, metrics, name, now) ==
    Const(AllocateDated(objects,                           \* sessionMetrics.map
              Map(objects[metrics],
                  LAMBDA session : ParsedMetricOf(session, name, now))), LAMBDA mapped :
    Const(SortDatedObjects(mapped, Len(mapped)), LAMBDA sorted :       \* parsedData.sort
    Const(generateSmartLabelsObjects(sorted, Len(mapped)), LAMBDA labelled :
    Const(Allocate(labelled,                               \* parsedData.map
              Map(Dated(labelled, Len(mapped)),
                  LAMBDA item : 100 * item.value)), LAMBDA points :
    Const(calculateYAxisRangeObjects(points, Len(points)), LAMBDA ranged :
    IF name = "rpe"
    THEN Write(ranged, Len(ranged),                        \* yAxisConfig.min = 0, ...
               [min |-> 0, max |-> 10000, stepSize |-> 1000])
    ELSE ranged)))))

\* renderChart on a page that has the canvas or has not; this is the
\* analytics object, whose chartInstance holds the Chart made
renderChartObjects(objects, this, stats, canvas, now) ==
    IF ~canvas \/ Len(objects[stats]) = 0 THEN objects
    ELSE LET destroyed == IF objects[this].chartInstance # Null
                          THEN Write(objects, this, [chartInstance |-> Null])
                          ELSE objects
             config    == createChartConfigObjects(destroyed, stats, now)
         IN  Write(config, this, [chartInstance |-> [type |-> "line"]])

(***************************************************************************)
(* The Firebase loader (lines 1-104).  A call of loadFirebaseWithFallback  *)
(* is in one of the stages "app", "auth" and "firestore" while the         *)
(* loadScript call of that library runs, "idle" before and "done" after.   *)
(* A script element is "pending" until the browser fires its onload or     *)
(* its onerror.                                                            *)
(***************************************************************************)
FIREBASE_URLS ==
    << "https://www.gstatic.com/firebasejs/10.12.2/firebase-app-compat.js",
       "https://cdn.jsdelivr.net/npm/firebase@10.12.2/compat/firebase-app.js" >>
FIREBASE_AUTH_URLS ==
    << "https://www.gstatic.com/firebasejs/10.12.2/firebase-auth-compat.js",
       "https://cdn.jsdelivr.net/npm/firebase@10.12.2/compat/firebase-auth.js" >>
FIREBASE_FIRESTORE_URLS ==
    << "https://www.gstatic.com/firebasejs/10.12.2/firebase-firestore-compat.js",
       "https://cdn.jsdelivr.net/npm/firebase@10.12.2/compat/firebase-firestore.js" >>

\* the urls argument of the loadScript call of a stage
UrlsOf(stage) ==
    CASE stage = "app"       -> FIREBASE_URLS
      [] stage = "auth"      -> FIREBASE_AUTH_URLS
      [] stage = "firestore" -> FIREBASE_FIRESTORE_URLS

\* a call of loadFirebaseWithFallback that has not been made
IdleLoad ==
    [stage       |-> "idle",
     hasCallback |-> FALSE,     \* whether a callback was handed in
     urlIndex    |-> 0,         \* of the running loadScript call
     returned    |-> <<>>,      \* what the loadScript calls gave their callbacks
     called      |-> <<>>]      \* what the callback handed in was called with

\* if (callback) callback(success), in loadFirebaseWithFallback
CallBack(load, success) ==
    IF load.hasCallback THEN [load EXCEPT !.called = Append(@, success)] ELSE load

\* loadNextUrl() of the loadScript call of load number id, on a loader:
\* the calls (loads) and the script elements (scripts)
RECURSIVE LoadScriptReturns(_, _, _, _)
RECURSIVE loadNextUrl(_, _, _)
loadNextUrl(loader, id, stage) ==
    LET load == loader.loads[id]
        urls == UrlsOf(stage)
    IN  IF load.urlIndex >= Len(urls)
        THEN LoadScriptReturns(loader, id, stage, FALSE)
        ELSE [loader EXCEPT !.scripts[id] =
                 Append(@, [stage |-> stage,
                            src   |-> urls[load.urlIndex + 1],
                            state |-> "pending"])]

\* loadScript(urls, callback) of a stage
loadScript(loader, id, stage) ==
    loadNextUrl([loader EXCEPT !.loads[id].stage = stage, !.loads[id].urlIndex = 0],
                id, stage)

\* the callbacks nested in loadFirebaseWithFallback, going on to the next
\* library after a failure
LoadScriptReturns_GoesOnAfterFailure(loader, id, stage, success) ==
    LET noted == [loader EXCEPT !.loads[id].returned =
                     Append(@, [stage |-> stage, success |-> success])]
    IN  IF stage = "app" THEN loadScript(noted, id, "auth")
        ELSE IF stage = "auth" THEN loadScript(noted, id, "firestore")
        ELSE [noted EXCEPT !.loads[id] = [CallBack(@, success) EXCEPT !.stage = "done"]]

\* callback(success) of a loadScript call: the callbacks nested in
\* loadFirebaseWithFallback
LoadScriptReturns(loader, id, stage, success) ==
    LET noted == [loader EXCEPT !.loads[id].returned =
                     Append(@, [stage |-> stage, success |-> success])]
    IN  IF ~success
        THEN [noted EXCEPT !.loads[id] = [CallBack(@, FALSE) EXCEPT !.stage = "done"]]
        ELSE IF stage = "app" THEN loadScript(noted, id, "auth")
        ELSE IF stage = "auth" THEN loadScript(noted, id, "firestore")
        ELSE [noted EXCEPT !.loads[id] = [CallBack(@, TRUE) EXCEPT !.stage = "done"]]

\* script.onload going on to the next URL as well
onload_TriesNextUrl(loader, id, k) ==
    LET script == loader.scripts[id][k]
        fired  == [loader EXCEPT !.scripts[id][k].state = "loaded",
                                 !.loads[id].urlIndex = @ + 1]
    IN  loadNextUrl(LoadScriptReturns(fired, id, script.stage, TRUE), id, script.stage)

\* script.onload of script element number k of load number id
onload(loader, id, k) ==
    LET script == loader.scripts[id][k]
        fired  == [loader EXCEPT !.scripts[id][k].state = "loaded"]
    IN  LoadScriptReturns(fired, id, script.stage, TRUE)

\* script.onerror of script element number k of load number id
onerror(loader, id, k) ==
    LET script == loader.scripts[id][k]
        fired  == [loader EXCEPT !.scripts[id][k].state = "failed",
                                 !.loads[id].urlIndex = @ + 1]
    IN  loadNextUrl(fired, id, script.stage)

\* window.loadFirebaseWithFallback(callback)
loadFirebaseWithFallback(loader, id, hasCallback) ==
    loadScript([loader EXCEPT !.loads[id].hasCallback = hasCallback], id, "app")

(***************************************************************************)
(* script.js: the pages, the roles and the redirects.  A uid, a role, a    *)
(* sport and a page are texts; null among them is NullString.              *)
(***************************************************************************)
NullString == "null"

Roles == {"coach", "athlete"}

LoginPages == {"coach-login.html", "athlete-login.html"}
SignupPages == {"coach-create-account.html", "create-account.html"}
DashboardPages == {"coach-dashboard.html", "athlete-dashboard.html"}
SportSelectionPage == "athlete-select-sport.html"
Pages == LoginPages \cup SignupPages \cup DashboardPages
             \cup {SportSelectionPage, "index.html"}

\* path.includes('login') || path.includes('create-account')
isAuthPage(path) == path \in LoginPages \cup SignupPages

\* path.includes('athlete-select-sport')
isSportSelectionPage(path) == path = SportSelectionPage

getRoleFromPageForSignup(path) ==
    IF path = "coach-create-account.html" THEN "coach" ELSE "athlete"

getRoleFromPageForDashboard(path) ==
    IF path = "coach-dashboard.html" THEN "coach"
    ELSE IF path = "athlete-dashboard.html" THEN "athlete"
    ELSE NullString

\* form.getAttribute('data-role') of the login form of a page
desiredRoleOf(path) ==
    IF path = "coach-login.html" THEN "coach"
    ELSE IF path = "athlete-login.html" THEN "athlete"
    ELSE ""

\* redirectToRoleDashboard without its branch for athletes
redirectToRoleDashboard_CoachOnly(path, role) ==
    IF role = "coach"
    THEN IF path # "coach-dashboard.html" THEN "coach-dashboard.html" ELSE NullString
    ELSE NullString

\* where redirectToRoleDashboard sends the browser from a page, null if
\* it leaves it where it is
redirectToRoleDashboard(path, role) ==
    IF role = "coach"
    THEN IF path # "coach-dashboard.html" THEN "coach-dashboard.html" ELSE NullString
    ELSE IF role = "athlete"
    THEN IF path # "athlete-dashboard.html" THEN "athlete-dashboard.html" ELSE NullString
    ELSE NullString

redirectToRoleLogin(role) ==
    IF role = "coach" THEN "coach-login.html" ELSE "athlete-login.html"

\* the login page the guard sends a dashboard's visitor to
LoginPageOfGuard(path) ==
    IF getRoleFromPageForDashboard(path) = "coach"
    THEN "coach-login.html" ELSE "athlete-login.html"

\* snap.exists() ? snap.data().role : null, of getUserRole
RoleIn(store, uid) ==
    IF store[uid] = Null THEN NullString ELSE store[uid].role

\* profile && profile.sport
HasSport(profile) == profile # Null /\ profile.sport # NullString

\* handleLoginSubmit and handleSignupSubmit before the form is submitted,
\* and an invocation of the guard's handler
IdleLogin == [pc |-> "idle", uid |-> NullString, role |-> NullString, submits |-> 0]
IdleSignup == [pc |-> "idle", uid |-> NullString, sport |-> NullString, submits |-> 0]

\* logout and handleSportSelection before they are called, and requireAuth
\* before it is called: no handler of it is registered
IdleLogout == [pc |-> "idle", uid |-> NullString, calls |-> 0]
IdleSportSelection == [pc |-> "idle", uid |-> NullString, sport |-> NullString, submits |-> 0]
IdleRequireAuth == [expectedRole |-> NullString, events |-> <<>>, handlers |-> <<>>]
Invocation(pc, user) == [pc |-> pc, user |-> user, role |-> NullString, profile |-> Null]

(***************************************************************************)
(* script.js on one page.  The state its code works on is held in a record *)
(* (the fields are the variables of the same names) and every stretch of   *)
(* code that runs without an await in it is an operator from the state     *)
(* before it to the state after it.  What the environment decides (whether *)
(* a request succeeds) is an argument.                                     *)
(***************************************************************************)

\* window.location.href = to, or location.replace(to), issued by a handler
\* on behalf of a user
Navigated(state, by, user, to) ==
    IF to = NullString THEN state
    ELSE [state EXCEPT !.navigations = Append(@, [by |-> by, user |-> user, to |-> to])]

\* Firebase Authentication makes user the signed-in user and tells the
\* registered handler if that is a change
Notified(state, user) ==
    [state EXCEPT !.currentUser = user,
                  !.events = IF state.listening /\ state.currentUser # user
                             THEN Append(@, user) ELSE @,
                  !.requireAuthCall.events =
                      IF state.requireAuthCall.expectedRole # NullString
                            /\ state.currentUser # user
                      THEN Append(@, user) ELSE @]

\* signOut(auth) taking effect, or failing
signOut(state, ok) == IF ok THEN Notified(state, NullString) ELSE state

\* setupAuthGuards(), run on DOMContentLoaded: onAuthStateChanged calls the
\* handler with the user of that moment
setupAuthGuards(state) ==
    IF state.authGuardRunning THEN state
    ELSE [state EXCEPT !.authGuardRunning = TRUE,
                       !.listening = TRUE,
                       !.events = Append(@, state.currentUser)]

\* window._authGuardRunning = false; return;  in invocation i of the handler
GuardReturns(state, i) ==
    [state EXCEPT !.authGuardRunning = FALSE,
                  !.guards[i] = Invocation("done", NullString)]

\* window._redirecting = true; window.location.replace(to);  in invocation i
GuardRedirects(state, i, to) ==
    Navigated([state EXCEPT !.redirecting = TRUE], "guard", state.guards[i].user, to)

\* the handler of onAuthStateChanged called with the next event, up to its
\* first await
onAuthStateChanged(state, path, switched) ==
    LET user == Head(state.events)
        i    == Len(state.guards) + 1
        began == [state EXCEPT !.events = Tail(@),
                               !.guards = Append(@, Invocation("start", user))]
    IN  IF began.redirecting THEN GuardReturns(began, i)
        ELSE IF isAuthPage(path) /\ switched
        THEN [began EXCEPT !.guards[i].pc = "signOut"]
        ELSE IF user = NullString
        THEN IF ~isAuthPage(path) /\ getRoleFromPageForDashboard(path) # NullString
             THEN GuardReturns(GuardRedirects(began, i, LoginPageOfGuard(path)), i)
             ELSE GuardReturns(began, i)
        ELSE [began EXCEPT !.guards[i].pc = "getUserRole"]

\* the signOut of the switch=1 flow taking effect
GuardSignOut(state, i, ok) ==
    [signOut(state, ok) EXCEPT !.guards[i].pc = "signedOut"]

\* the handler after await signOut(auth): reload without the switch parameter
GuardAfterSignOut(state, i, path) ==
    GuardReturns(Navigated(state, "guard", state.guards[i].user, path), i)

\* getUserProfile(uid) up to its await, called by invocation i: an item of
\* localStorage is returned as it is and a getDoc is started in the
\* background, otherwise the getDoc is awaited
GuardCallsGetUserProfile(state, i) ==
    LET user == state.guards[i].user
    IN  IF state.localStorage[user] # Null
        THEN [state EXCEPT !.guards[i].pc = "profileCached",
                           !.guards[i].profile = state.localStorage[user],
                           !.syncs = @ \cup {user}]
        ELSE [state EXCEPT !.guards[i].pc = "profileGetDoc"]

\* the handler after await getUserRole(user.uid), up to its next await
GuardAfterGetUserRole(state, i, path, ok) ==
    LET user     == state.guards[i].user
        role     == RoleIn(state.profiles, user)
        expected == getRoleFromPageForDashboard(path)
        got      == [state EXCEPT !.guards[i].role = role]
    IN  IF ~ok
        THEN IF ~isAuthPage(path)
             THEN GuardReturns(GuardRedirects(state, i, LoginPageOfGuard(path)), i)
             ELSE GuardReturns(state, i)
        ELSE IF role = NullString /\ ~isAuthPage(path)
        THEN GuardReturns(GuardRedirects(got, i, LoginPageOfGuard(path)), i)
        ELSE IF isAuthPage(path)
        THEN IF got.loginInProgress THEN GuardReturns(got, i)
             ELSE IF role # NullString /\ ~got.redirecting
             THEN GuardReturns(GuardRedirects(got, i, redirectToRoleDashboard(path, role)), i)
             ELSE GuardReturns(got, i)
        ELSE IF isSportSelectionPage(path) /\ role = "athlete"
        THEN GuardCallsGetUserProfile(got, i)
        ELSE IF expected # NullString /\ role # NullString /\ role # expected
        THEN IF ~got.redirecting
             THEN GuardReturns(GuardRedirects(got, i, redirectToRoleDashboard(path, role)), i)
             ELSE GuardReturns(got, i)
        ELSE IF expected = "athlete" /\ role = "athlete"
        THEN GuardCallsGetUserProfile(got, i)
        ELSE GuardReturns(got, i)

\* the handler after await getUserProfile(user.uid)
GuardAfterGetUserProfile(state, i, path, ok) ==
    LET g       == state.guards[i]
        cached  == g.pc = "profileCached"
        profile == IF cached THEN g.profile ELSE state.profiles[g.user]
        got     == IF ~cached /\ profile # Null
                   THEN [state EXCEPT !.localStorage[g.user] = profile]
                   ELSE state
    IN  IF ~cached /\ ~ok THEN GuardReturns(state, i)
        ELSE IF isSportSelectionPage(path)
        THEN IF HasSport(profile) /\ ~got.redirecting
             THEN GuardReturns(GuardRedirects(got, i, "athlete-dashboard.html"), i)
             ELSE GuardReturns(got, i)
        ELSE IF ~HasSport(profile) /\ ~got.redirecting
             THEN GuardReturns(GuardRedirects(got, i, SportSelectionPage), i)
             ELSE GuardReturns(got, i)

\* authOptions.enforceEmailVerification of firebase-config.js
enforceEmailVerification == FALSE

\* the older copy of the handler, kept in firebase-loader.js (1829-1966).
\* Up to its first await it is the handler above.  Its end: the check of
\* the email verification on a dashboard; verified is user.emailVerified
OlderGuardVerifies(state, i, path, verified) ==
    LET role     == state.guards[i].role
        expected == getRoleFromPageForDashboard(path)
    IN  IF expected # NullString /\ enforceEmailVerification /\ ~verified
              /\ ~state.redirecting
        THEN GuardReturns(GuardRedirects(state, i,
                 redirectToRoleLogin(IF role # NullString THEN role ELSE expected)), i)
        ELSE GuardReturns(state, i)

\* the older copy after await getUserRole(user.uid), up to its next await:
\* its getUserProfile awaits a getDoc and keeps nothing in localStorage
OlderGuardAfterGetUserRole(state, i, path, ok, verified) ==
    LET user     == state.guards[i].user
        role     == RoleIn(state.profiles, user)
        expected == getRoleFromPageForDashboard(path)
        got      == [state EXCEPT !.guards[i].role = role]
    IN  IF ~ok THEN GuardReturns(state, i)
        ELSE IF isAuthPage(path)
        THEN IF got.loginInProgress THEN GuardReturns(got, i)
             ELSE IF enforceEmailVerification /\ ~verified THEN GuardReturns(got, i)
             ELSE IF role # NullString /\ ~got.redirecting
             THEN GuardReturns(GuardRedirects(got, i, redirectToRoleDashboard(path, role)), i)
             ELSE GuardReturns(got, i)
        ELSE IF isSportSelectionPage(path) /\ role = "athlete"
        THEN [got EXCEPT !.guards[i].pc = "profileGetDoc"]
        ELSE IF expected # NullString /\ role # NullString /\ role # expected
        THEN IF ~got.redirecting
             THEN GuardReturns(GuardRedirects(got, i, redirectToRoleDashboard(path, role)), i)
             ELSE GuardReturns(got, i)
        ELSE IF expected = "athlete" /\ role = "athlete"
        THEN [got EXCEPT !.guards[i].pc = "profileGetDoc"]
        ELSE OlderGuardVerifies(got, i, path, verified)

\* the older copy after await getUserProfile(user.uid)
OlderGuardAfterGetUserProfile(state, i, path, ok, verified) ==
    LET profile == state.profiles[state.guards[i].user]
    IN  IF isSportSelectionPage(path)
        THEN IF ok /\ HasSport(profile) /\ ~state.redirecting
             THEN GuardReturns(GuardRedirects(state, i, "athlete-dashboard.html"), i)
             ELSE GuardReturns(state, i)
        ELSE IF ok /\ ~HasSport(profile)
        THEN IF ~state.redirecting
             THEN GuardReturns(GuardRedirects(state, i, SportSelectionPage), i)
             ELSE GuardReturns(state, i)
        ELSE OlderGuardVerifies(state, i, path, verified)

\* the background getDoc of getUserProfile coming back
BackgroundSync(state, uid, ok) ==
    [state EXCEPT !.syncs = @ \ {uid},
                  !.localStorage[uid] =
                      IF ok /\ state.profiles[uid] # Null THEN state.profiles[uid] ELSE @]

\* handleLoginSubmit(event) up to its first await; uid is the account the
\* password entered belongs to
handleLoginSubmit(state, hasError, uid) ==
    [state EXCEPT !.loginInProgress = TRUE,
                  !.login = [pc      |-> IF hasError THEN "invalid" ELSE "signIn",
                             uid     |-> IF hasError THEN NullString ELSE uid,
                             role    |-> NullString,
                             submits |-> @.submits + 1]]

\* handleLoginSubmit after await signInWithEmailAndPassword
LoginAfterSignIn(state, ok) ==
    IF ok
    THEN [Notified(state, state.login.uid) EXCEPT !.login.pc = "getUserRole"]
    ELSE [state EXCEPT !.loginInProgress = FALSE, !.login.pc = "failed"]

\* handleLoginSubmit after await getUserRole(uid), up to its next await
LoginAfterGetUserRole(state, path, ok) ==
    LET role == RoleIn(state.profiles, state.login.uid)
        got  == [state EXCEPT !.login.role = role]
    IN  IF ~ok
        THEN [state EXCEPT !.loginInProgress = FALSE, !.login.pc = "failed"]
        ELSE IF role = NullString
        THEN [got EXCEPT !.loginInProgress = FALSE, !.login.pc = "noProfile"]
        ELSE IF desiredRoleOf(path) # "" /\ role # desiredRoleOf(path)
        THEN [got EXCEPT !.login.pc = "signOut"]
        ELSE Navigated([got EXCEPT !.loginInProgress = FALSE,
                                   !.redirecting = TRUE,
                                   !.login.pc = "redirected"],
                       "handleLoginSubmit", state.login.uid,
                       redirectToRoleDashboard(path, role))

\* the signOut of handleLoginSubmit taking effect
LoginSignOut(state, ok) ==
    [signOut(state, ok) EXCEPT !.login.pc = "signedOut"]

\* handleLoginSubmit after try { await signOut(auth); } catch (_e) {}
LoginAfterSignOut(state) ==
    [state EXCEPT !.loginInProgress = FALSE, !.login.pc = "blocked"]

\* handleSignupSubmit(event) up to its first await
handleSignupSubmit(state, hasError, sport) ==
    [state EXCEPT !.signup = [pc      |-> IF hasError THEN "invalid" ELSE "createUser",
                              uid     |-> NullString,
                              sport   |-> sport,
                              submits |-> @.submits + 1]]

\* handleSignupSubmit after await createUserWithEmailAndPassword: uid is
\* the account created
SignupAfterCreateUser(state, uid, ok) ==
    IF ok
    THEN [Notified([state EXCEPT !.accounts = @ \cup {uid}], uid)
             EXCEPT !.signup.uid = uid, !.signup.pc = "setDoc"]
    ELSE [state EXCEPT !.signup.pc = "failed"]

\* handleSignupSubmit after await setDoc(...), up to await getUserProfile
SignupAfterSetDoc(state, path, ok) ==
    LET uid     == state.signup.uid
        profile == [role |-> getRoleFromPageForSignup(path), sport |-> state.signup.sport]
    IN  IF ok
        THEN [state EXCEPT !.profiles[uid] = profile,
                           !.localStorage[uid] = profile,
                           !.syncs = @ \cup {uid},
                           !.signup.pc = "getUserProfile"]
        ELSE [state EXCEPT !.signup.pc = "failed"]

\* handleSignupSubmit after await getUserProfile(user.uid), which gave the
\* item just put into localStorage
SignupAfterGetUserProfile(state, path) ==
    IF getRoleFromPageForSignup(path) = "athlete"
    THEN [state EXCEPT !.signup.pc = "setTimeout"]
    ELSE Navigated([state EXCEPT !.signup.pc = "done"], "handleSignupSubmit",
                   state.signup.uid, redirectToRoleLogin("coach"))

\* the function handed to setTimeout by handleSignupSubmit
SignupTimeout(state) ==
    Navigated([state EXCEPT !.signup.pc = "done"], "handleSignupSubmit",
              state.signup.uid, "athlete-dashboard.html")

\* the user is signed out from another tab
SignedOutElsewhere(state) ==
    [Notified(state, NullString) EXCEPT !.authChanges = @ + 1]

\* window.removeAthleteFromTeam(athleteId) up to its await, on the teams
\* of the page and of the store and the calls made (view); teamName is the
\* text of the element teamDetailsName, null if there is none.  A call
\* records the team it found and the members that team had (previous)
removeAthleteFromTeam(view, teamName, athleteId) ==
    LET found      == {t \in 1..Len(view.teams) : view.teams[t].name = teamName}
        team       == CHOOSE t \in found : \A u \in found : t <= u
        newMembers == SelectSeq(view.teams[team].memberIds,
                                LAMBDA id : id # athleteId)
        call       == [pc |-> "returned", athleteId |-> athleteId, team |-> 0,
                       previous |-> <<>>, newMembers |-> <<>>]
    IN  IF teamName = NullString \/ found = {}
        THEN [view EXCEPT !.removals = Append(@, call)]
        ELSE [view EXCEPT !.teams[team].memberIds = newMembers,
                          !.removals =
                              Append(@, [call EXCEPT
                                            !.pc = "updateDoc",
                                            !.team = team,
                                            !.previous = view.teams[team].memberIds,
                                            !.newMembers = newMembers])]

\* call number i of removeAthleteFromTeam after await updateDoc(...)
RemovalAfterUpdateDoc(view, i, ok) ==
    LET call == view.removals[i]
    IN  IF ok
        THEN [view EXCEPT !.storedTeams[view.teams[call.team].id] = call.newMembers,
                          !.removals[i].pc = "removed"]
        ELSE [view EXCEPT !.removals[i].pc = "failed"]

\* logout() up to its await: the item of the signed-in user is removed
logout(state) ==
    LET user    == state.currentUser
        removed == IF user # NullString
                   THEN [state EXCEPT !.localStorage[user] = Null]
                   ELSE state
    IN  [removed EXCEPT !.logoutCall = [pc    |-> "signOut",
                                        uid   |-> user,
                                        calls |-> @.calls + 1]]

\* the signOut of logout taking effect, or rejecting: logout throws
LogoutSignOut(state, ok) ==
    [signOut(state, ok) EXCEPT !.logoutCall.pc = IF ok THEN "signedOut" ELSE "failed"]

\* logout after await signOut(auth)
LogoutAfterSignOut(state) ==
    Navigated([state EXCEPT !.logoutCall.pc = "done"], "logout",
              state.logoutCall.uid, "index.html")

\* handleSportSelection(event) up to its await; selected is the sport
\* checked in the form, null if none is
handleSportSelection(state, selected) ==
    LET user   == state.currentUser
        called == [state EXCEPT !.sportSelection =
                      [pc      |-> "returned",
                       uid     |-> user,
                       sport   |-> selected,
                       submits |-> @.submits + 1]]
    IN  IF user = NullString
        THEN Navigated(called, "handleSportSelection", user, "athlete-login.html")
        ELSE IF selected = NullString THEN called
        ELSE [called EXCEPT !.sportSelection.pc = "updateDoc"]

\* handleSportSelection after await updateDoc(...): the document has the
\* sport, or the update was rejected (as it is for a document that does
\* not exist)
SportAfterUpdateDoc(state, ok) ==
    LET uid == state.sportSelection.uid
    IN  IF ok
        THEN Navigated([state EXCEPT !.profiles[uid].sport = state.sportSelection.sport,
                                     !.redirecting = TRUE,
                                     !.sportSelection.pc = "saved"],
                       "handleSportSelection", uid, "athlete-dashboard.html")
        ELSE [state EXCEPT !.sportSelection.pc = "failed"]

\* an invocation of the handler of requireAuth
Required(pc, user) == [pc |-> pc, user |-> user]

\* requireAuth(expectedRole): onAuthStateChanged calls the handler with the
\* user of that moment
requireAuth(state, expectedRole) ==
    [state EXCEPT !.requireAuthCall =
        [expectedRole |-> expectedRole,
         events       |-> <<state.currentUser>>,
         handlers     |-> <<>>]]

\* the handler of requireAuth called with the next event, up to its await
RequireAuthStateChanged(state) ==
    LET call == state.requireAuthCall
        user == Head(call.events)
        took == [state EXCEPT !.requireAuthCall.events = Tail(@)]
    IN  IF user = NullString
        THEN Navigated([took EXCEPT !.requireAuthCall.handlers =
                                        Append(@, Required("done", NullString))],
                       "requireAuth", user, redirectToRoleLogin(call.expectedRole))
        ELSE [took EXCEPT !.requireAuthCall.handlers =
                              Append(@, Required("getUserRole", user))]

\* the handler of requireAuth after await getUserRole(user.uid)
RequireAfterGetUserRole(state, i, ok) ==
    LET call     == state.requireAuthCall
        user     == call.handlers[i].user
        role     == RoleIn(state.profiles, user)
        returned == [state EXCEPT !.requireAuthCall.handlers[i] =
                                      Required("done", NullString)]
    IN  IF ~ok \/ role = NullString
        THEN Navigated(returned, "requireAuth", user,
                       redirectToRoleLogin(call.expectedRole))
        ELSE IF role # call.expectedRole
        THEN Navigated(returned, "requireAuth", user,
                       IF role = "coach" THEN "coach-dashboard.html"
                                         ELSE "athlete-dashboard.html")
        ELSE returned

(***************************************************************************)
(* The inputs the calculators are run on.                                  *)
(***************************************************************************)
SessionIds == {"s1", "s2", "s3"}
FirstSessionIds == {"s1", "s2"}
AthleteIds == {"a1", "a2", "a3"}

\* attendance texts as stored, in several spellings, and the absent field
AttendanceValues ==
    {"present", "Present", "LATE", "Left Early", "late arrival",
     "Absent", "excused", "", Undefined}

\* the day the records of a session carry, and what a session may carry
\* itself: nothing, or a later day
RecordDay(sessionId) == IF sessionId = "s1" THEN 2 ELSE 1
SessionDates == {NoDate, 3}

TrainingSession(id, date) ==
    [id |-> id, sessionName |-> Undefined, sessionDate |-> date]

AthleteSessionRecord(sessionId, athleteId, attendance, points) ==
    [sessionId   |-> sessionId,
     athleteId   |-> athleteId,
     athleteName |-> Undefined,
     sessionName |-> Undefined,
     sessionDate |-> RecordDay(sessionId),
     attendance  |-> attendance,
     points      |-> RawNumber(points),
     rebounds    |-> RawNumber(points + 1),
     assists     |-> RawNumber(2),
     turnovers   |-> RawNumber(1),
     fouls       |-> RawMissing,
     rpe         |-> RawNumber(7)]

\* sessions without a date in any order, with records of one athlete per
\* row that differ in session, attendance and points
AggregationSessions ==
    SeqUpTo({TrainingSession(id, NoDate) : id \in FirstSessionIds}, MaxSessions)
AggregationRecords ==
    SeqUpTo({AthleteSessionRecord(sid, "a1", ap[1], ap[2]) :
                sid \in FirstSessionIds,
                ap \in {<<"Present", 10>>, <<"Present", 20>>, <<"Absent", 10>>}},
            MaxRecords)

\* sessions in any order, dated or not, with participating records
OrderSessions ==
    SeqUpTo({TrainingSession(id, d) : id \in FirstSessionIds, d \in SessionDates},
            MaxSessions)
OrderRecords ==
    SeqUpTo({AthleteSessionRecord("s1", "a1", "Present", 10),
             AthleteSessionRecord("s2", "a2", "Present", 20)},
            MaxRecords)

\* records that differ in athlete, attendance and points
PlayerSessions == {<<TrainingSession("s1", NoDate), TrainingSession("s2", NoDate)>>}
PlayerRecords ==
    SeqUpTo({AthleteSessionRecord("s1", aid, att, p) :
                aid \in AthleteIds, att \in {"Present", "Absent"}, p \in {5, 15}},
            MaxRecords)

\* records of one athlete in one session that differ in attendance only
AttendanceSessions == {<<TrainingSession("s1", NoDate)>>}
AttendanceRecords ==
    SeqUpTo({AthleteSessionRecord("s1", "a1", att, 10) : att \in AttendanceValues},
            MaxRecords)

\* records of one athlete in one session whose numeric fields are stored as
\* numbers, as texts or not at all: points, assists and fouls hold one raw
\* value, rebounds, turnovers and rpe another
RawValues == {RawNumber(10), RawNumericText(7), RawPrefixedText(12),
              RawOtherText, RawMissing}
OtherRawValues == {RawNumber(3), RawOtherText}

MalformedRecord(day, p, q) ==
    [AthleteSessionRecord("s1", "a1", "Present", 0) EXCEPT
        !.sessionDate = day,
        !.points = p, !.assists = p, !.fouls = p,
        !.rebounds = q, !.turnovers = q, !.rpe = q]

MalformedSessions == {<<TrainingSession("s1", NoDate)>>}
MalformedRecords ==
    SeqUpTo({MalformedRecord(2, p, q) : p \in RawValues, q \in OtherRawValues},
            MaxRecords)

\* the records of one athlete over three days, with equal and different
\* points, and one record of a day missed
HistoryRecord(day, attendance, points) ==
    [AthleteSessionRecord("s1", "a1", attendance, points) EXCEPT !.sessionDate = day]

HistorySessions == {<<TrainingSession("s1", NoDate)>>}
HistoryRecords ==
    SeqUpTo({HistoryRecord(day, "Present", p) : day \in {1, 2, 3}, p \in {5, 15}}
              \cup {HistoryRecord(2, "Absent", 15)},
            MaxRecords)

\* three sessions and who took part in which, in any order and number
RosterSessions ==
    {<<TrainingSession("s1", NoDate), TrainingSession("s2", NoDate),
       TrainingSession("s3", NoDate)>>}
RosterRecords ==
    SeqUpTo({AthleteSessionRecord(sa[1], sa[2], "Present", 10) :
                sa \in {<<"s1", "a1">>, <<"s1", "a2">>, <<"s2", "a2">>, <<"s3", "a3">>}},
            MaxRoster)

\* the values calculateConsistency is called on directly
ConsistencyValues == {-10, 0, 10, 20, 1000, 1001}

(***************************************************************************)
(* The calculators as operations of a TeamPerformanceAnalytics object.     *)
(* Each call is synchronous and leaves its arguments alone; a behaviour is *)
(* one call on one input, since the calculators keep nothing between calls.*)
(***************************************************************************)
\* the page before any of its scripts has done anything
Uids == {"u1", "u2", "u3"}

LoaderInit ==
    /\ loads = [id \in 1..MaxLoads |-> IdleLoad]
    /\ scripts = [id \in 1..MaxLoads |-> <<>>]

\* a page whose script.js has not run yet: no flag is set, no handler is
\* registered, nothing has been submitted
ScriptInit ==
    /\ unloaded = FALSE
    /\ navigations = <<>>
    /\ authChanges = 0
    /\ syncs = {}
    /\ authGuardRunning = FALSE
    /\ redirecting = FALSE
    /\ loginInProgress = FALSE
    /\ listening = FALSE
    /\ events = <<>>
    /\ guards = <<>>
    /\ login = IdleLogin
    /\ signup = IdleSignup
    /\ logoutCall = IdleLogout
    /\ sportSelection = IdleSportSelection
    /\ requireAuthCall = IdleRequireAuth
    /\ pageLoads = 0

\* no team is held and none is stored
TeamInit ==
    /\ teams = <<>>
    /\ storedTeams = <<>>
    /\ removals = <<>>

PageInit ==
    /\ LoaderInit
    /\ ScriptInit
    /\ TeamInit
    /\ pathname = "index.html"
    /\ switch = FALSE
    /\ accounts = {}
    /\ currentUser = NullString
    /\ profiles = [uid \in Uids |-> Null]
    /\ localStorage = [uid \in Uids |-> Null]

\* an analytics object that is not used
AnalyticsInit ==
    /\ trainingSessions = <<>>
    /\ athleteSessionData = <<>>
    /\ avgPoints = <<>>
    /\ dataPoints = <<>>
    /\ parsedData = <<>>
    /\ chartStats = <<>>
    /\ chartMetrics = <<>>
    /\ metric = "points"
    /\ localOffset = 0
    /\ lastCall = "none"
    /\ result = Null
    /\ console = <<>>
    /\ chartInstance = Null

\* where the caller's objects are: the analytics object, the arrays handed
\* to the methods, and after them the Date objects of parsedData
Caller ==
    [this |-> 1, trainingSessions |-> 2, athleteSessionData |-> 3, avgPoints |-> 4,
     dataPoints |-> 5, chartStats |-> 6, chartMetrics |-> 7, parsedData |-> 8]

CallerObjects ==
    << [chartInstance |-> chartInstance], trainingSessions, athleteSessionData,
       avgPoints, dataPoints, chartStats, chartMetrics,
       [i \in 1..Len(parsedData) |->
           [parsedData[i] EXCEPT !.date = Caller.parsedData + i]] >>
        \o [i \in 1..Len(parsedData) |-> parsedData[i].date]

\* a call that ends with these objects leaves them to the caller; the
\* metric and the time zone are no objects
Leaves(objects) ==
    /\ chartInstance' = objects[Caller.this].chartInstance
    /\ trainingSessions' = objects[Caller.trainingSessions]
    /\ athleteSessionData' = objects[Caller.athleteSessionData]
    /\ avgPoints' = objects[Caller.avgPoints]
    /\ dataPoints' = objects[Caller.dataPoints]
    /\ chartStats' = objects[Caller.chartStats]
    /\ chartMetrics' = objects[Caller.chartMetrics]
    /\ parsedData' = Dated(objects, Caller.parsedData)
    /\ UNCHANGED <<metric, localOffset>>

Init ==
    /\ \/ trainingSessions \in AggregationSessions /\ athleteSessionData \in AggregationRecords
       \/ trainingSessions \in OrderSessions /\ athleteSessionData \in OrderRecords
       \/ trainingSessions \in PlayerSessions /\ athleteSessionData \in PlayerRecords
       \/ trainingSessions \in AttendanceSessions /\ athleteSessionData \in AttendanceRecords
       \/ trainingSessions \in MalformedSessions /\ athleteSessionData \in MalformedRecords
       \/ trainingSessions \in HistorySessions /\ athleteSessionData \in HistoryRecords
       \/ trainingSessions \in RosterSessions /\ athleteSessionData \in RosterRecords
    /\ avgPoints = <<>>
    /\ dataPoints = <<>>
    /\ parsedData = <<>>
    /\ chartStats = <<>>
    /\ chartMetrics = <<>>
    /\ metric = "points"
    /\ localOffset = 0
    /\ lastCall = "none"
    /\ result = Null
    /\ console = <<>>
    /\ chartInstance = Null
    /\ PageInit

CallTeamPerformanceTrend ==
    /\ lastCall = "none"
    /\ lastCall' = "team"
    /\ UNCHANGED page
    /\ result' = calculateTeamPerformanceTrend(trainingSessions, athleteSessionData)
    /\ console' = console \o CollectSessionWarnings(trainingSessions, athleteSessionData)
    /\ Leaves(calculateTeamPerformanceTrendObjects(
                  CallerObjects, Caller.trainingSessions, Caller.athleteSessionData))

CallPlayerAveragePoints ==
    /\ lastCall = "none"
    /\ lastCall' = "player"
    /\ UNCHANGED page
    /\ result' = calculatePlayerAveragePoints(trainingSessions, athleteSessionData)
    /\ Leaves(calculatePlayerAveragePointsObjects(CallerObjects, Caller.athleteSessionData))
    /\ UNCHANGED console

CallAthletePerformanceMetrics ==
    /\ lastCall = "none"
    /\ lastCall' = "athlete"
    /\ UNCHANGED page
    /\ result' = calculateAthletePerformanceMetrics(athleteSessionData)
    /\ Leaves(calculateAthletePerformanceMetricsObjects(
                  CallerObjects, Caller.athleteSessionData))
    /\ UNCHANGED console

Next ==
    \/ CallTeamPerformanceTrend
    \/ CallPlayerAveragePoints
    \/ CallAthletePerformanceMetrics

Spec == Init /\ [][Next]_vars

(***************************************************************************)
(* calculateConsistency called on its own.                                 *)
(***************************************************************************)
InitConsistency ==
    /\ trainingSessions = <<>>
    /\ athleteSessionData = <<>>
    /\ avgPoints \in SeqUpTo(ConsistencyValues, MaxValues)
    /\ dataPoints = <<>>
    /\ parsedData = <<>>
    /\ chartStats = <<>>
    /\ chartMetrics = <<>>
    /\ metric = "points"
    /\ localOffset = 0
    /\ lastCall = "none"
    /\ result = Null
    /\ console = <<>>
    /\ chartInstance = Null
    /\ PageInit

CallConsistency ==
    /\ lastCall = "none"
    /\ lastCall' = "consistency"
    /\ UNCHANGED page
    /\ result' = [score |-> calculateConsistency(avgPoints)]
    /\ UNCHANGED args
    /\ UNCHANGED <<console, chartInstance>>

NextConsistency == CallConsistency

SpecConsistency == InitConsistency /\ [][NextConsistency]_vars

(***************************************************************************)
(* calculateYAxisRange called on its own.                                  *)
(***************************************************************************)
\* data points in hundredths: a value below 0, values around the padding
\* and step thresholds, and values far apart
YAxisValues == {-500, 0, 10, 100, 500, 910, 2000, 6000}

InitYAxis ==
    /\ trainingSessions = <<>>
    /\ athleteSessionData = <<>>
    /\ avgPoints = <<>>
    /\ dataPoints \in SeqUpTo(YAxisValues, MaxPoints)
    /\ parsedData = <<>>
    /\ chartStats = <<>>
    /\ chartMetrics = <<>>
    /\ metric = "points"
    /\ localOffset = 0
    /\ lastCall = "none"
    /\ result = Null
    /\ console = <<>>
    /\ chartInstance = Null
    /\ PageInit

CallYAxisRange ==
    /\ lastCall = "none"
    /\ lastCall' = "yAxis"
    /\ UNCHANGED page
    /\ result' = calculateYAxisRange(dataPoints)
    /\ Leaves(calculateYAxisRangeObjects(CallerObjects, Caller.dataPoints))
    /\ UNCHANGED console

NextYAxis == CallYAxisRange

SpecYAxis == InitYAxis /\ [][NextYAxis]_vars

(***************************************************************************)
(* calculateTrendLine called on its own, on averages of 2 decimals.        *)
(***************************************************************************)
\* data points in hundredths: whole numbers and fractions
TrendValues == {0, 10, 30, 500, 1233, 2000}

InitTrendLine ==
    /\ trainingSessions = <<>>
    /\ athleteSessionData = <<>>
    /\ avgPoints = <<>>
    /\ dataPoints \in SeqUpTo(TrendValues, MaxPoints)
    /\ parsedData = <<>>
    /\ chartStats = <<>>
    /\ chartMetrics = <<>>
    /\ metric = "points"
    /\ localOffset = 0
    /\ lastCall = "none"
    /\ result = Null
    /\ console = <<>>
    /\ chartInstance = Null
    /\ PageInit

CallTrendLine ==
    /\ lastCall = "none"
    /\ lastCall' = "trendLine"
    /\ UNCHANGED page
    /\ result' = [trendLine |-> calculateTrendLine(Map(dataPoints, Hundredths))]
    /\ Leaves(calculateTrendLineObjects(CallerObjects, Caller.dataPoints))
    /\ UNCHANGED console

NextTrendLine == CallTrendLine

SpecTrendLine == InitTrendLine /\ [][NextTrendLine]_vars

(***************************************************************************)
(* generateSmartLabels and getMaxXTicks called on the points of a chart.   *)
(***************************************************************************)
\* sessions every gap days from a first day on, at one time of day (as when
\* the dates are stored as days) or alternating between 23:00 and 07:00 UTC
\* (as when they are stored as times)
FirstDays  == {0, 3}
Gaps       == {1, 3, 10}
TimesOfDay == {<<0, 0>>, <<1380, 420>>}

\* UTC, UTC+10 and UTC-5
LocalOffsets == {0, 600, -300}

ParsedDataOf(dataCount, first, gap, times) ==
    [i \in 1..dataCount |->
        [date      |-> (first + (i - 1) * gap) * MinutesPerDay + times[2 - (i % 2)],
         sessionId |-> "s" \o ToString(i)]]

InitLabels ==
    /\ trainingSessions = <<>>
    /\ athleteSessionData = <<>>
    /\ avgPoints = <<>>
    /\ dataPoints = <<>>
    /\ \E dataCount \in 0..MaxCount, first \in FirstDays, gap \in Gaps,
          times \in TimesOfDay :
          parsedData = ParsedDataOf(dataCount, first, gap, times)
    /\ chartStats = <<>>
    /\ chartMetrics = <<>>
    /\ metric = "points"
    /\ localOffset \in LocalOffsets
    /\ lastCall = "none"
    /\ result = Null
    /\ console = <<>>
    /\ chartInstance = Null
    /\ PageInit

CallSmartLabels ==
    /\ lastCall = "none"
    /\ lastCall' = "smartLabels"
    /\ UNCHANGED page
    /\ result' = generateSmartLabels(parsedData)
    /\ Leaves(generateSmartLabelsObjects(CallerObjects, Caller.parsedData))
    /\ UNCHANGED console

CallMaxXTicks ==
    /\ lastCall = "none"
    /\ lastCall' = "maxXTicks"
    /\ UNCHANGED page
    /\ result' = [maxTicksLimit |-> getMaxXTicks(Len(parsedData))]
    /\ UNCHANGED args
    /\ UNCHANGED <<console, chartInstance>>

NextLabels ==
    \/ CallSmartLabels
    \/ CallMaxXTicks

SpecLabels == InitLabels /\ [][NextLabels]_vars

(***************************************************************************)
(* createChartConfig and createAthleteMetricChart called on the stats of a *)
(* team and the metrics of an athlete.                                     *)
(***************************************************************************)
\* the sessions of days 1, 2, ... in the order of their dates, in the
\* opposite order, or with every third date missing or unreadable
StatOrders == {"ascending", "descending", "some undated"}

\* the averages, in hundredths, that the stats alternate between
StatValues == {<<500, 1233>>, <<0, 2000>>, <<1000, 1000>>}

\* the time of the call: between the sessions, or after all of them
Nows == {3 * MinutesPerDay + 600, 20 * MinutesPerDay}

SessionDateOf(i, count, order) ==
    CASE order = "ascending"  -> i
      [] order = "descending" -> count + 1 - i
      [] OTHER -> IF i % 3 # 0 THEN i ELSE IF i % 2 = 0 THEN NoDate ELSE InvalidDate

ChartStatsOf(count, order, values) ==
    [i \in 1..count |->
        [sessionId   |-> "s" \o ToString(i),
         sessionName |-> "Training Session",
         sessionDate |-> SessionDateOf(i, count, order),
         totalPoints |-> (2 * (values[2 - (i % 2)] + i)) \div 100,
         participatingAthletes |-> 2,
         avgPointsPerPlayer    |-> values[2 - (i % 2)] + i]]

ChartMetricsOf(count, order, values) ==
    [i \in 1..count |->
        [sessionId   |-> "s" \o ToString(i),
         sessionName |-> "Training Session",
         sessionDate |-> SessionDateOf(i, count, order),
         points      |-> values[2 - (i % 2)] \div 100 + i,
         rebounds    |-> i,
         assists     |-> 2,
         turnovers   |-> 1,
         fouls       |-> 0,
         rpe         |-> 5 + (i % 3),
         attendance  |-> "Present"]]

InitCharts ==
    /\ trainingSessions = <<>>
    /\ athleteSessionData = <<>>
    /\ avgPoints = <<>>
    /\ dataPoints = <<>>
    /\ parsedData = <<>>
    /\ \E count \in 0..MaxStats, order \in StatOrders, values \in StatValues :
          /\ chartStats = ChartStatsOf(count, order, values)
          /\ chartMetrics = ChartMetricsOf(count, order, values)
    /\ metric \in {"points", "rpe"}
    /\ localOffset \in {0, 600}
    /\ lastCall = "none"
    /\ result = Null
    /\ console = <<>>
    /\ chartInstance = Null
    /\ PageInit

CallChartConfig ==
    /\ lastCall = "none"
    /\ lastCall' = "chartConfig"
    /\ UNCHANGED page
    /\ \E now \in Nows :
          /\ result' = createChartConfig(chartStats, now)
          /\ Leaves(createChartConfigObjects(CallerObjects, Caller.chartStats, now))
    /\ console' = console \o DateWarnings(chartStats)

CallAthleteMetricChart ==
    /\ lastCall = "none"
    /\ lastCall' = "athleteMetricChart"
    /\ UNCHANGED page
    /\ \E now \in Nows :
          /\ result' = createAthleteMetricChart(chartMetrics, metric, now)
          /\ Leaves(createAthleteMetricChartObjects(
                        CallerObjects, Caller.chartMetrics, metric, now))
    /\ UNCHANGED console

NextCharts ==
    \/ CallChartConfig
    \/ CallAthleteMetricChart

SpecCharts == InitCharts /\ [][NextCharts]_vars

(***************************************************************************)
(* One analytics object: renderChart, which keeps its Chart in the object, *)
(* and the calculators and chart-data shapers called before or after it.   *)
(***************************************************************************)
InitObject ==
    /\ \/ /\ trainingSessions \in OrderSessions
          /\ athleteSessionData \in OrderRecords
          /\ dataPoints = <<>>
          /\ parsedData = <<>>
          /\ chartMetrics = <<>>
          /\ metric = "points"
       \/ /\ trainingSessions = <<>>
          /\ athleteSessionData = <<>>
          /\ dataPoints \in SeqUpTo(TrendValues, MaxPoints)
          /\ parsedData = <<>>
          /\ chartMetrics = <<>>
          /\ metric = "points"
       \/ /\ trainingSessions = <<>>
          /\ athleteSessionData = <<>>
          /\ dataPoints = <<>>
          /\ \E dataCount \in 0..MaxCount, times \in TimesOfDay :
                parsedData = ParsedDataOf(dataCount, 0, 3, times)
          /\ chartMetrics = <<>>
          /\ metric = "points"
       \/ /\ trainingSessions = <<>>
          /\ athleteSessionData = <<>>
          /\ dataPoints = <<>>
          /\ parsedData = <<>>
          /\ \E count \in 0..MaxStats :
                chartMetrics = ChartMetricsOf(count, "descending", <<500, 1233>>)
          /\ metric \in {"points", "rpe"}
    /\ avgPoints = <<>>
    /\ \E count \in {2, MaxStats} :
          chartStats = ChartStatsOf(count, "descending", <<500, 1233>>)
    /\ localOffset = 600
    /\ lastCall = "none"
    /\ result = Null
    /\ console = <<>>
    /\ chartInstance = Null
    /\ PageInit

\* renderChart(canvasId, sessionStats, teamName) returns nothing
RenderChart ==
    /\ lastCall = "none"
    /\ \E canvas \in BOOLEAN, now \in Nows :
          /\ Leaves(renderChartObjects(CallerObjects, Caller.this, Caller.chartStats,
                                       canvas, now))
          /\ console' = IF canvas /\ Len(chartStats) # 0
                        THEN console \o DateWarnings(chartStats)
                        ELSE console
    /\ UNCHANGED <<lastCall, result>>
    /\ UNCHANGED page

NextObject ==
    \/ RenderChart
    \/ CallTeamPerformanceTrend
    \/ CallPlayerAveragePoints
    \/ CallAthletePerformanceMetrics
    \/ CallYAxisRange
    \/ CallTrendLine
    \/ CallSmartLabels
    \/ CallChartConfig
    \/ CallAthleteMetricChart

SpecObject == InitObject /\ [][NextObject]_vars

(***************************************************************************)
(* The Firebase loader on one page: the calls of loadFirebaseWithFallback  *)
(* (the one made when the file is run, without a callback, and those of    *)
(* the page) and the load and error events of the script elements.         *)
(***************************************************************************)
Loader == [loads |-> loads, scripts |-> scripts]

BecomesLoader(loader) ==
    /\ loads' = loader.loads
    /\ scripts' = loader.scripts
    /\ UNCHANGED authentication
    /\ UNCHANGED teamView

InitLoader ==
    /\ AnalyticsInit
    /\ PageInit

CallLoadFirebaseWithFallback ==
    /\ \E id \in 1..MaxLoads, hasCallback \in BOOLEAN :
          /\ loads[id].stage = "idle"
          /\ \A earlier \in 1..(id - 1) : loads[earlier].stage # "idle"
          /\ BecomesLoader(loadFirebaseWithFallback(Loader, id, hasCallback))
    /\ UNCHANGED analytics

ScriptLoad ==
    /\ \E id \in 1..MaxLoads : \E k \in 1..Len(scripts[id]) :
          /\ scripts[id][k].state = "pending"
          /\ BecomesLoader(onload(Loader, id, k))
    /\ UNCHANGED analytics

ScriptError ==
    /\ \E id \in 1..MaxLoads : \E k \in 1..Len(scripts[id]) :
          /\ scripts[id][k].state = "pending"
          /\ BecomesLoader(onerror(Loader, id, k))
    /\ UNCHANGED analytics

NextLoader ==
    \/ CallLoadFirebaseWithFallback
    \/ ScriptLoad
    \/ ScriptError

SpecLoader == InitLoader /\ [][NextLoader]_vars

(***************************************************************************)
(* script.js on one page load: the guard, the login form and the sign-up   *)
(* form, with the requests they await coming back in any order, and the    *)
(* page being left some time after a navigation was issued.                *)
(***************************************************************************)
Script ==
    [unloaded |-> unloaded, navigations |-> navigations, accounts |-> accounts,
     currentUser |-> currentUser, authChanges |-> authChanges, profiles |-> profiles,
     localStorage |-> localStorage, syncs |-> syncs,
     authGuardRunning |-> authGuardRunning, redirecting |-> redirecting,
     loginInProgress |-> loginInProgress, listening |-> listening, events |-> events,
     guards |-> guards, login |-> login, signup |-> signup,
     logoutCall |-> logoutCall, sportSelection |-> sportSelection,
     requireAuthCall |-> requireAuthCall, pageLoads |-> pageLoads]

BecomesScript(state) ==
    /\ unloaded' = state.unloaded
    /\ navigations' = state.navigations
    /\ accounts' = state.accounts
    /\ currentUser' = state.currentUser
    /\ authChanges' = state.authChanges
    /\ profiles' = state.profiles
    /\ localStorage' = state.localStorage
    /\ syncs' = state.syncs
    /\ authGuardRunning' = state.authGuardRunning
    /\ redirecting' = state.redirecting
    /\ loginInProgress' = state.loginInProgress
    /\ listening' = state.listening
    /\ events' = state.events
    /\ guards' = state.guards
    /\ login' = state.login
    /\ signup' = state.signup
    /\ logoutCall' = state.logoutCall
    /\ sportSelection' = state.sportSelection
    /\ requireAuthCall' = state.requireAuthCall
    /\ pageLoads' = state.pageLoads
    /\ UNCHANGED <<pathname, switch>>
    /\ UNCHANGED teamView
    /\ UNCHANGED firebaseLoader
    /\ UNCHANGED analytics

\* the profiles stored before the page is loaded: a coach, an athlete with
\* or without a sport, and possibly an account without a profile
StoredProfiles ==
    { [uid \in Uids |->
          IF uid = "u1" THEN [role |-> "coach", sport |-> "basketball"]
          ELSE IF uid = "u2" THEN [role |-> "athlete", sport |-> sport]
          ELSE Null] : sport \in {NullString, "basketball"} }

InitScript ==
    /\ AnalyticsInit
    /\ LoaderInit
    /\ ScriptInit
    /\ TeamInit
    /\ pathname \in Pages
    /\ switch \in (IF isAuthPage(pathname) THEN BOOLEAN ELSE {FALSE})
    /\ accounts \in {{"u1", "u2"}, Uids}
    /\ currentUser \in {NullString} \cup accounts
    /\ profiles \in StoredProfiles
    /\ localStorage \in
          { [uid \in Uids |-> Null],
            [uid \in Uids |-> IF uid = currentUser THEN profiles[uid] ELSE Null] }

DOMContentLoaded ==
    /\ ~unloaded
    /\ ~listening
    /\ BecomesScript(setupAuthGuards(Script))

AuthStateChanged ==
    /\ ~unloaded
    /\ events # <<>>
    /\ BecomesScript(onAuthStateChanged(Script, pathname, switch))

GuardSignsOut ==
    /\ ~unloaded
    /\ \E i \in 1..Len(guards), ok \in BOOLEAN :
          /\ guards[i].pc = "signOut"
          /\ BecomesScript(GuardSignOut(Script, i, ok))

GuardSignedOut ==
    /\ ~unloaded
    /\ \E i \in 1..Len(guards) :
          /\ guards[i].pc = "signedOut"
          /\ BecomesScript(GuardAfterSignOut(Script, i, pathname))

GuardGetsUserRole ==
    /\ ~unloaded
    /\ \E i \in 1..Len(guards), ok \in BOOLEAN :
          /\ guards[i].pc = "getUserRole"
          /\ BecomesScript(GuardAfterGetUserRole(Script, i, pathname, ok))

GuardGetsUserProfile ==
    /\ ~unloaded
    /\ \E i \in 1..Len(guards), ok \in BOOLEAN :
          /\ guards[i].pc \in {"profileCached", "profileGetDoc"}
          /\ BecomesScript(GuardAfterGetUserProfile(Script, i, pathname, ok))

BackgroundSyncs ==
    /\ ~unloaded
    /\ \E uid \in syncs, ok \in BOOLEAN :
          BecomesScript(BackgroundSync(Script, uid, ok))

LoginSubmit ==
    /\ ~unloaded
    /\ pathname \in LoginPages
    /\ login.pc \in {"idle", "invalid", "failed", "noProfile", "blocked"}
    /\ login.submits < MaxSubmits
    /\ \E hasError \in BOOLEAN, uid \in accounts \cup {NullString} :
          BecomesScript(handleLoginSubmit(Script, hasError, uid))

LoginSignsIn ==
    /\ ~unloaded
    /\ login.pc = "signIn"
    /\ \E ok \in BOOLEAN :
          /\ ok => login.uid \in accounts
          /\ BecomesScript(LoginAfterSignIn(Script, ok))

LoginGetsUserRole ==
    /\ ~unloaded
    /\ login.pc = "getUserRole"
    /\ \E ok \in BOOLEAN :
          BecomesScript(LoginAfterGetUserRole(Script, pathname, ok))

LoginSignsOut ==
    /\ ~unloaded
    /\ login.pc = "signOut"
    /\ \E ok \in BOOLEAN :
          BecomesScript(LoginSignOut(Script, ok))

LoginSignedOut ==
    /\ ~unloaded
    /\ login.pc = "signedOut"
    /\ BecomesScript(LoginAfterSignOut(Script))

SignupSubmit ==
    /\ ~unloaded
    /\ pathname \in SignupPages
    /\ signup.pc \in {"idle", "invalid", "failed"}
    /\ signup.submits < MaxSubmits
    /\ \E hasError \in BOOLEAN, sport \in {NullString, "basketball"} :
          BecomesScript(handleSignupSubmit(Script, hasError, sport))

SignupCreatesUser ==
    /\ ~unloaded
    /\ signup.pc = "createUser"
    /\ \/ BecomesScript(SignupAfterCreateUser(Script, NullString, FALSE))
       \/ \E uid \in Uids \ accounts :
             BecomesScript(SignupAfterCreateUser(Script, uid, TRUE))

SignupSetsDoc ==
    /\ ~unloaded
    /\ signup.pc = "setDoc"
    /\ \E ok \in BOOLEAN :
          BecomesScript(SignupAfterSetDoc(Script, pathname, ok))

SignupGetsUserProfile ==
    /\ ~unloaded
    /\ signup.pc = "getUserProfile"
    /\ BecomesScript(SignupAfterGetUserProfile(Script, pathname))

SignupTimesOut ==
    /\ ~unloaded
    /\ signup.pc = "setTimeout"
    /\ BecomesScript(SignupTimeout(Script))

SignOutElsewhere ==
    /\ ~unloaded
    /\ authChanges < MaxAuthChanges
    /\ currentUser # NullString
    /\ BecomesScript(SignedOutElsewhere(Script))

\* the browser leaves the page for the one a navigation named
Unload ==
    /\ ~unloaded
    /\ navigations # <<>>
    /\ BecomesScript([Script EXCEPT !.unloaded = TRUE])

NextScript ==
    \/ DOMContentLoaded
    \/ AuthStateChanged
    \/ GuardSignsOut
    \/ GuardSignedOut
    \/ GuardGetsUserRole
    \/ GuardGetsUserProfile
    \/ BackgroundSyncs
    \/ LoginSubmit
    \/ LoginSignsIn
    \/ LoginGetsUserRole
    \/ LoginSignsOut
    \/ LoginSignedOut
    \/ SignupSubmit
    \/ SignupCreatesUser
    \/ SignupSetsDoc
    \/ SignupGetsUserProfile
    \/ SignupTimesOut
    \/ SignOutElsewhere
    \/ Unload

SpecScript == InitScript /\ [][NextScript]_vars

(***************************************************************************)
(* The coach dashboard removing athletes from its teams.  The page holds   *)
(* the teams as they are stored when it starts.                            *)
(***************************************************************************)
TeamNames == {"Team A", "Team B"}

\* member lists: none, one, several, and one that names an athlete twice
MemberLists ==
    {<<>>, <<"a1">>, <<"a1", "a2", "a3">>, <<"a2", "a1", "a2">>}

TeamView == [teams |-> teams, storedTeams |-> storedTeams, removals |-> removals]

BecomesTeamView(view) ==
    /\ teams' = view.teams
    /\ storedTeams' = view.storedTeams
    /\ removals' = view.removals
    /\ UNCHANGED authentication
    /\ UNCHANGED firebaseLoader
    /\ UNCHANGED analytics

InitTeam ==
    /\ AnalyticsInit
    /\ LoaderInit
    /\ ScriptInit
    /\ pathname = "coach-dashboard.html"
    /\ switch = FALSE
    /\ accounts = {"u1"}
    /\ currentUser = "u1"
    /\ profiles = [uid \in Uids |->
                      IF uid = "u1" THEN [role |-> "coach", sport |-> "basketball"]
                      ELSE Null]
    /\ localStorage = [uid \in Uids |-> Null]
    /\ \E members \in MemberLists :
          /\ teams = << [id |-> "t1", name |-> "Team A", memberIds |-> members],
                        [id |-> "t2", name |-> "Team B", memberIds |-> <<"a3", "a1">>] >>
          /\ storedTeams = [id \in {"t1", "t2"} |->
                               IF id = "t1" THEN members ELSE <<"a3", "a1">>]
    /\ removals = <<>>

CallRemoveAthleteFromTeam ==
    /\ Len(removals) < MaxRemovals
    /\ \E teamName \in TeamNames \cup {"Team C", NullString}, athleteId \in AthleteIds :
          BecomesTeamView(removeAthleteFromTeam(TeamView, teamName, athleteId))

\* the writes of one page reach the store in the order they were made
UpdateDocReturns ==
    \E i \in 1..Len(removals), ok \in BOOLEAN :
        /\ removals[i].pc = "updateDoc"
        /\ \A j \in 1..(i - 1) : removals[j].pc # "updateDoc"
        /\ BecomesTeamView(RemovalAfterUpdateDoc(TeamView, i, ok))

NextTeam ==
    \/ CallRemoveAthleteFromTeam
    \/ UpdateDocReturns

SpecTeam == InitTeam /\ [][NextTeam]_vars

(***************************************************************************)
(* script.js on the protected pages: the guard and requireAuth, logout and *)
(* the sport form, with the browser loading the page a navigation named.   *)
(* What is kept from page to page is what the browser and Firebase keep:   *)
(* the signed-in user, the profiles and localStorage.                      *)
(***************************************************************************)
ProtectedPages == DashboardPages \cup {SportSelectionPage}

InitProtected ==
    /\ AnalyticsInit
    /\ LoaderInit
    /\ ScriptInit
    /\ TeamInit
    /\ pathname \in ProtectedPages
    /\ switch = FALSE
    /\ accounts = Uids
    /\ currentUser \in {NullString} \cup accounts
    /\ profiles \in StoredProfiles
    /\ localStorage \in
          { [uid \in Uids |-> Null],
            [uid \in Uids |-> IF uid = currentUser THEN profiles[uid] ELSE Null] }

\* a dashboard page calls requireAuth with its role
CallRequireAuth ==
    /\ ~unloaded
    /\ pathname \in DashboardPages
    /\ requireAuthCall.expectedRole = NullString
    /\ BecomesScript(requireAuth(Script, getRoleFromPageForDashboard(pathname)))

RequireAuthChanged ==
    /\ ~unloaded
    /\ requireAuthCall.events # <<>>
    /\ BecomesScript(RequireAuthStateChanged(Script))

RequireGetsUserRole ==
    /\ ~unloaded
    /\ \E i \in 1..Len(requireAuthCall.handlers), ok \in BOOLEAN :
          /\ requireAuthCall.handlers[i].pc = "getUserRole"
          /\ BecomesScript(RequireAfterGetUserRole(Script, i, ok))

Logout ==
    /\ ~unloaded
    /\ pathname \in DashboardPages
    /\ logoutCall.pc \in {"idle", "failed"}
    /\ logoutCall.calls < MaxLogouts
    /\ BecomesScript(logout(Script))

LogoutSignsOut ==
    /\ ~unloaded
    /\ logoutCall.pc = "signOut"
    /\ \E ok \in BOOLEAN :
          BecomesScript(LogoutSignOut(Script, ok))

LogoutSignedOut ==
    /\ ~unloaded
    /\ logoutCall.pc = "signedOut"
    /\ BecomesScript(LogoutAfterSignOut(Script))

SportSubmit ==
    /\ ~unloaded
    /\ pathname = SportSelectionPage
    /\ sportSelection.pc \in {"idle", "returned", "failed"}
    /\ sportSelection.submits < MaxSubmits
    /\ \E selected \in {NullString, "basketball"} :
          BecomesScript(handleSportSelection(Script, selected))

SportUpdatesDoc ==
    /\ ~unloaded
    /\ sportSelection.pc = "updateDoc"
    /\ \E ok \in BOOLEAN :
          /\ ok => profiles[sportSelection.uid] # Null
          /\ BecomesScript(SportAfterUpdateDoc(Script, ok))

\* the browser leaves the page and loads the one the last navigation
\* named: its scripts start anew, and the requests of the page left are
\* dropped
Load ==
    /\ ~unloaded
    /\ navigations # <<>>
    /\ pageLoads < MaxPageLoads
    /\ pathname' = navigations[Len(navigations)].to
    /\ pageLoads' = pageLoads + 1
    /\ navigations' = <<>>
    /\ syncs' = {}
    /\ authGuardRunning' = FALSE
    /\ redirecting' = FALSE
    /\ loginInProgress' = FALSE
    /\ listening' = FALSE
    /\ events' = <<>>
    /\ guards' = <<>>
    /\ login' = IdleLogin
    /\ signup' = IdleSignup
    /\ logoutCall' = IdleLogout
    /\ sportSelection' = IdleSportSelection
    /\ requireAuthCall' = IdleRequireAuth
    /\ UNCHANGED <<switch, unloaded, accounts, currentUser, authChanges, profiles,
                   localStorage>>
    /\ UNCHANGED firebaseLoader
    /\ UNCHANGED teamView
    /\ UNCHANGED analytics

NextProtected ==
    \/ DOMContentLoaded
    \/ AuthStateChanged
    \/ GuardGetsUserRole
    \/ GuardGetsUserProfile
    \/ BackgroundSyncs
    \/ CallRequireAuth
    \/ RequireAuthChanged
    \/ RequireGetsUserRole
    \/ Logout
    \/ LogoutSignsOut
    \/ LogoutSignedOut
    \/ SportSubmit
    \/ SportUpdatesDoc
    \/ SignOutElsewhere
    \/ Load

SpecProtected == InitProtected /\ [][NextProtected]_vars

(***************************************************************************)
(* script.js on one load of a dashboard.  The browser fires                *)
(* DOMContentLoaded, Firebase calls the handlers it has events for, and    *)
(* every request of a handler comes back, with a result or with an error;  *)
(* the user and the other tabs need not do anything.                       *)
(***************************************************************************)
InitDashboard ==
    /\ InitProtected
    /\ pathname \in DashboardPages

NextDashboard ==
    \/ DOMContentLoaded
    \/ AuthStateChanged
    \/ GuardGetsUserRole
    \/ GuardGetsUserProfile
    \/ BackgroundSyncs
    \/ CallRequireAuth
    \/ RequireAuthChanged
    \/ RequireGetsUserRole
    \/ Logout
    \/ LogoutSignsOut
    \/ LogoutSignedOut
    \/ SignOutElsewhere
    \/ Unload

FairDashboard ==
    /\ WF_vars(DOMContentLoaded)
    /\ WF_vars(AuthStateChanged)
    /\ WF_vars(GuardGetsUserRole)
    /\ WF_vars(GuardGetsUserProfile)
    /\ WF_vars(RequireAuthChanged)
    /\ WF_vars(RequireGetsUserRole)

SpecDashboardFair == InitDashboard /\ [][NextDashboard]_vars /\ FairDashboard

(***************************************************************************)
(* The older copy of the guard on one load of a protected page.            *)
(***************************************************************************)
OlderGuardGetsUserRole ==
    /\ ~unloaded
    /\ \E i \in 1..Len(guards), ok \in BOOLEAN, verified \in BOOLEAN :
          /\ guards[i].pc = "getUserRole"
          /\ BecomesScript(OlderGuardAfterGetUserRole(Script, i, pathname, ok, verified))

OlderGuardGetsUserProfile ==
    /\ ~unloaded
    /\ \E i \in 1..Len(guards), ok \in BOOLEAN, verified \in BOOLEAN :
          /\ guards[i].pc = "profileGetDoc"
          /\ BecomesScript(OlderGuardAfterGetUserProfile(Script, i, pathname, ok, verified))

NextOlderGuard ==
    \/ DOMContentLoaded
    \/ AuthStateChanged
    \/ OlderGuardGetsUserRole
    \/ OlderGuardGetsUserProfile
    \/ SignOutElsewhere
    \/ Unload

SpecOlderGuard == InitProtected /\ [][NextOlderGuard]_vars

(***************************************************************************)
(* Vocabulary of the properties, stated on the inputs themselves.          *)
(***************************************************************************)
\* the attendance texts of the model that are, up to letter case, one of
\* present, late, left early, late arrival
NamedParticipating == {"present", "Present", "LATE", "Left Early", "late arrival"}

\* a record named as participating by its attendance text
NamedRecord(r) == r.attendance \in NamedParticipating

\* a record the calculators take as participating: named so, or without an
\* attendance text (missing or empty), which stands for present
Counted(r) == r.attendance \in NamedParticipating \cup {"", Undefined}

\* the number a record's points field stands for
PointsValue(r) ==
    IF r.points.kind \in {"number", "numeric text", "text after a number"}
    THEN r.points.val
    ELSE 0

CountedOfSession(id) ==
    SelectSeq(athleteSessionData, LAMBDA r : r.sessionId = id /\ Counted(r))
CountedOfAthlete(id) ==
    SelectSeq(athleteSessionData, LAMBDA r : r.athleteId = id /\ Counted(r))
CountedRecords == SelectSeq(athleteSessionData, Counted)
NamedRecords   == SelectSeq(athleteSessionData, NamedRecord)

Abs(x) == IF x < 0 THEN -x ELSE x

\* h is num / den * scale rounded to a whole number (den > 0)
Nearest(h, num, den, scale) == 2 * Abs(scale * num - h * den) <= den

\* C1: calculateTeamPerformanceTrend emits a SessionStat for an input
\* session exactly when at least one participating record carries its id;
\* an emitted stat counts those records in participatingAthletes (never 0),
\* sums their points in totalPoints, and its avgPointsPerPlayer is
\* totalPoints / participatingAthletes rounded to 2 decimals.
C1_SessionStats ==
    lastCall = "team" =>
        LET stats == result.sessionStats IN
        /\ \A id \in SessionIds :
              Cardinality({i \in DOMAIN stats : stats[i].sessionId = id})
                = IF CountedOfSession(id) # <<>>
                  THEN Cardinality({j \in DOMAIN trainingSessions :
                                       trainingSessions[j].id = id})
                  ELSE 0
        /\ \A i \in DOMAIN stats :
              LET rs == CountedOfSession(stats[i].sessionId) IN
              /\ stats[i].participatingAthletes = Len(rs)
              /\ stats[i].participatingAthletes >= 1
              /\ stats[i].totalPoints = SumSeq(Map(rs, PointsValue))
              /\ Nearest(stats[i].avgPointsPerPlayer, SumSeq(Map(rs, PointsValue)),
                         Len(rs), 100)

\* a session with two participants is reported while another session, whose
\* only record is not participating, is dropped
C1_Witness ==
    /\ lastCall = "team"
    /\ Len(result.sessionStats) = 1
    /\ result.sessionStats[1].participatingAthletes = 2
    /\ \E j \in DOMAIN trainingSessions :
          /\ trainingSessions[j].id # result.sessionStats[1].sessionId
          /\ \E k \in DOMAIN athleteSessionData :
                athleteSessionData[k].sessionId = trainingSessions[j].id

\* what each calculator made of the records: how many it counted and the
\* points it added up
ContributionCount ==
    CASE lastCall = "team" ->
             SumSeq(Map(result.sessionStats, LAMBDA s : s.participatingAthletes))
      [] lastCall = "player" ->
             SumSeq(Map(result.playerStats, LAMBDA p : Len(p.sessions)))
      [] lastCall = "athlete" -> Len(result.sessionMetrics)
      [] OTHER -> 0

ContributionPoints ==
    CASE lastCall = "team" ->
             SumSeq(Map(result.sessionStats, LAMBDA s : s.totalPoints))
      [] lastCall = "player" ->
             SumSeq(Map(result.playerStats, LAMBDA p : p.totalPoints))
      [] lastCall = "athlete" ->
             SumSeq(Map(result.sessionMetrics, LAMBDA m : m.points))
      [] OTHER -> 0

\* the records a calculator looks at: the team calculator only those of a
\* session it was given, once per time the session is listed
RECURSIVE RecordsOfSessions(_)
RecordsOfSessions(sessions) ==
    IF sessions = <<>> THEN <<>>
    ELSE SelectSeq(athleteSessionData, LAMBDA r : r.sessionId = Head(sessions).id)
         \o RecordsOfSessions(Tail(sessions))

RecordsInScope ==
    IF lastCall = "team" THEN RecordsOfSessions(trainingSessions)
    ELSE athleteSessionData

\* C2 as stated: in all three calculators a record contributes to the
\* aggregates only if its attendance is, case-insensitively, one of
\* present, late, left early, late arrival.
C2_OnlyNamedAttendanceCounts ==
    lastCall \in {"team", "player", "athlete"} =>
        /\ ContributionCount = Len(SelectSeq(RecordsInScope, NamedRecord))
        /\ ContributionPoints =
               SumSeq(Map(SelectSeq(RecordsInScope, NamedRecord), PointsValue))

\* C2 as amended: in all three calculators a record contributes to the
\* aggregates exactly when its attendance is, case-insensitively, one of
\* present, late, left early, late arrival, or is missing or empty (which
\* is read as Present); a record with any other attendance contributes
\* nothing.
C2_AttendanceFilter ==
    lastCall \in {"team", "player", "athlete"} =>
        /\ ContributionCount = Len(SelectSeq(RecordsInScope, Counted))
        /\ ContributionPoints =
               SumSeq(Map(SelectSeq(RecordsInScope, Counted), PointsValue))
        /\ lastCall = "player" =>
              \A i \in DOMAIN result.playerStats :
                 \A k \in DOMAIN result.playerStats[i].sessions :
                    result.playerStats[i].sessions[k].attendance
                        \in NamedParticipating \cup {"", Undefined}
        /\ lastCall = "athlete" =>
              \A i \in DOMAIN result.sessionMetrics :
                 result.sessionMetrics[i].attendance \in NamedParticipating

\* records spelled in upper case, excused and without attendance have been
\* through a calculator
C2_Witness ==
    /\ lastCall \in {"team", "player", "athlete"}
    /\ \E i, j, k \in DOMAIN athleteSessionData :
          /\ athleteSessionData[i].attendance = "LATE"
          /\ athleteSessionData[j].attendance = "excused"
          /\ athleteSessionData[k].attendance = Undefined
    /\ ContributionCount = 2

(***************************************************************************)
(* calculateConsistency: the properties are stated on n, S and D with the  *)
(* score in tenths, so that cv <= c / 2000 reads 2000 * Sqrt(D) <= c * S.  *)
(***************************************************************************)
ValuesSum == SumSeq(avgPoints)
ValuesSpread == Len(avgPoints) * SumSquares(avgPoints) - ValuesSum * ValuesSum
AllEqual == \A i, j \in DOMAIN avgPoints : avgPoints[i] = avgPoints[j]

\* 2000 * Sqrt(d) < b for d >= 0, b >= 0
ScaledRootBelow(d, b) ==
    LET q == b \div 2000
        r == b % 2000
        e == d - q * q
    IN  IF e < 0 THEN TRUE
        ELSE IF e > 2 * q + 1 THEN FALSE
        ELSE LET x == 1000 * e - q * r
             IN  IF x < 0 THEN TRUE
                 ELSE IF x >= 1000 THEN FALSE
                 ELSE 4000 * x < r * r

\* C3 as stated: the result is in [0,100], is 100 for 0 or 1 values, and
\* (for 2 or more values) is 100 exactly when all values are equal and the
\* mean is not zero.
C3_HundredIffEqualNonzero ==
    lastCall = "consistency" =>
        /\ result.score \in 0..1000
        /\ Len(avgPoints) < 2 => result.score = 1000
        /\ Len(avgPoints) >= 2 =>
              (result.score = 1000 <=> AllEqual /\ ValuesSum # 0)

\* C3 as amended: the result is in [0,100]; it is 100 for 0 or 1 values and
\* whenever all values are equal, whatever their mean; it is also 100
\* whenever the mean is not positive and whenever the standard deviation is
\* below 0.0005 of the mean, and a result of 100 for a positive mean means
\* no more than that the standard deviation is at most 0.0005 of the mean.
C3_ConsistencyRange ==
    lastCall = "consistency" =>
        /\ result.score \in 0..1000
        /\ Len(avgPoints) < 2 => result.score = 1000
        /\ AllEqual => result.score = 1000
        /\ Len(avgPoints) >= 2 =>
              /\ ValuesSum <= 0 => result.score = 1000
              /\ ValuesSum > 0 /\ ScaledRootBelow(ValuesSpread, ValuesSum)
                    => result.score = 1000
              /\ ValuesSum > 0 /\ result.score = 1000
                    => ScaledRootAtMost(ValuesSpread, ValuesSum)

\* two unequal values of positive mean have been scored 100
C3_Witness ==
    /\ lastCall = "consistency"
    /\ avgPoints = <<1000, 1001>>
    /\ result.score = 1000

\* C4: on 2 or more values calculateConsistency returns
\* 100 - (population standard deviation / mean) * 100, with the coefficient
\* of variation taken as 0 when the mean is 0, clamped to [0,100] and
\* rounded to 1 decimal; [10,10,10] gives 100 and [0,20] gives 0.
C4_ConsistencyFormula ==
    (lastCall = "consistency" /\ Len(avgPoints) >= 2) =>
        LET t == result.score
            S == ValuesSum
            D == ValuesSpread
        IN  /\ t \in 0..1000
            /\ S = 0 => t = 1000
            \* a negative mean makes 100 - cv * 100 exceed 100: clamped
            /\ S < 0 => t = 1000
            \* cv >= 1 makes it negative or 0: clamped
            /\ (S > 0 /\ D >= S * S) => t = 0
            \* otherwise t is within half a tenth of 1000 * (1 - cv)
            /\ (S > 0 /\ D < S * S) =>
                  /\ ScaledRootAtMost(D, (2001 - 2 * t) * S)
                  /\ t < 1000 => ~ScaledRootBelow(D, (1999 - 2 * t) * S)
            /\ avgPoints = <<10, 10, 10>> => t = 1000
            /\ avgPoints = <<0, 20>> => t = 0

\* a list whose score is strictly between 0 and 100 has been scored
C4_Witness ==
    /\ lastCall = "consistency"
    /\ avgPoints = <<10, 20>>
    /\ result.score = 667

(***************************************************************************)
(* Player averages, orderings and summaries.                               *)
(***************************************************************************)
\* C5: calculatePlayerAveragePoints returns exactly one PlayerStat per
\* athleteId that has a participating record; its sessionsParticipated is
\* the number of that athlete's participating records (at least 1), its
\* totalPoints their sum, its sessions history has sessionsParticipated
\* entries, and averagePoints is totalPoints / sessionsParticipated
\* (2 decimals); points 5 and 15 give average 10 over 2 sessions.
C5_PlayerStats ==
    lastCall = "player" =>
        LET stats == result.playerStats IN
        /\ \A id \in AthleteIds :
              Cardinality({i \in DOMAIN stats : stats[i].playerId = id})
                = IF CountedOfAthlete(id) # <<>> THEN 1 ELSE 0
        /\ \A i \in DOMAIN stats :
              LET rs == CountedOfAthlete(stats[i].playerId) IN
              /\ stats[i].playerId \in AthleteIds
              /\ stats[i].sessionsParticipated = Len(rs)
              /\ stats[i].sessionsParticipated >= 1
              /\ stats[i].totalPoints = SumSeq(Map(rs, PointsValue))
              /\ Len(stats[i].sessions) = stats[i].sessionsParticipated
              /\ Nearest(stats[i].averagePoints, SumSeq(Map(rs, PointsValue)),
                         Len(rs), 100)
        /\ (\E id \in AthleteIds :
               Map(athleteSessionData, LAMBDA r : <<r.athleteId, r.attendance, PointsValue(r)>>)
                 = <<(<<id, "Present", 5>>), (<<id, "Present", 15>>)>>)
              => /\ Len(stats) = 1
                 /\ stats[1].averagePoints = 1000
                 /\ stats[1].sessionsParticipated = 2

\* one athlete with points 5 and 15 next to another athlete who was absent
C5_Witness ==
    /\ lastCall = "player"
    /\ Len(athleteSessionData) = 3
    /\ Len(result.playerStats) = 1
    /\ result.playerStats[1].sessionsParticipated = 2
    /\ result.playerStats[1].totalPoints = 20
    /\ result.playerStats[1].averagePoints = 1000
    /\ \E k \in DOMAIN athleteSessionData :
          athleteSessionData[k].athleteId # result.playerStats[1].playerId

\* C6: sessionStats is in ascending order of session date, whatever the
\* order of the input sessions: no element is dated later than its
\* successor.
C6_SessionStatsByDate ==
    lastCall = "team" =>
        \A i \in 1..(Len(result.sessionStats) - 1) :
            result.sessionStats[i].sessionDate <= result.sessionStats[i + 1].sessionDate

\* two sessions came out in the opposite order to the one they went in
C6_Witness ==
    /\ lastCall = "team"
    /\ Len(trainingSessions) = 2
    /\ Len(result.sessionStats) = 2
    /\ result.sessionStats[1].sessionId = trainingSessions[2].id
    /\ result.sessionStats[2].sessionId = trainingSessions[1].id
    /\ result.sessionStats[1].sessionDate < result.sessionStats[2].sessionDate

\* C7: playerStats is in descending order of averagePoints, whatever the
\* order of the input records: no element has a lower average than its
\* successor.
C7_PlayerStatsByAverage ==
    lastCall = "player" =>
        \A i \in 1..(Len(result.playerStats) - 1) :
            result.playerStats[i].averagePoints >= result.playerStats[i + 1].averagePoints

\* three players of which the one met last has the highest average and
\* comes out first
C7_Witness ==
    /\ lastCall = "player"
    /\ Len(result.playerStats) = 3
    /\ result.playerStats[1].playerId = athleteSessionData[3].athleteId
    /\ result.playerStats[1].averagePoints > result.playerStats[2].averagePoints

\* C8: the team summary is null exactly when sessionStats is empty;
\* otherwise totalSessions is the number of stats, overallAverage the mean
\* of the per-session averages (2 decimals), highestAverage and
\* lowestAverage their maximum and minimum, totalAthletesTracked the sum of
\* the participant counts and totalPointsScored the sum of the totals; two
\* players with 10 each and one player with 20 give 10, 20 and 15.
C8_TeamSummary ==
    lastCall = "team" =>
        LET stats == result.sessionStats
            sum   == result.summary
            avgs  == Map(stats, LAMBDA x : x.avgPointsPerPlayer)
        IN  /\ (sum = Null) <=> (stats = <<>>)
            /\ stats # <<>> =>
                  /\ sum.totalSessions = Len(stats)
                  /\ Nearest(sum.overallAverage, SumSeq(avgs), Len(stats), 1)
                  /\ \A i \in DOMAIN stats :
                        /\ avgs[i] <= sum.highestAverage
                        /\ avgs[i] >= sum.lowestAverage
                  /\ \E i \in DOMAIN stats : avgs[i] = sum.highestAverage
                  /\ \E i \in DOMAIN stats : avgs[i] = sum.lowestAverage
                  /\ sum.totalAthletesTracked =
                        Len(SelectSeq(RecordsOfSessions(trainingSessions), Counted))
                  /\ sum.totalPointsScored =
                        SumSeq(Map(SelectSeq(RecordsOfSessions(trainingSessions), Counted),
                                   PointsValue))
            /\ (/\ Map(trainingSessions, LAMBDA x : x.id) = <<"s1", "s2">>
                /\ Map(athleteSessionData, LAMBDA r : <<r.sessionId, r.attendance, PointsValue(r)>>)
                     = <<(<<"s1", "Present", 10>>), (<<"s1", "Present", 10>>),
                         (<<"s2", "Present", 20>>)>>)
                  => /\ Len(stats) = 2
                     /\ \E i, j \in DOMAIN stats : avgs[i] = 1000 /\ avgs[j] = 2000
                     /\ sum.overallAverage = 1500

\* the summary of two sessions whose averages differ
C8_Witness ==
    /\ lastCall = "team"
    /\ result.summary # Null
    /\ result.summary.totalSessions = 2
    /\ result.summary.totalAthletesTracked = 3
    /\ result.summary.lowestAverage = 1000
    /\ result.summary.highestAverage = 2000
    /\ result.summary.overallAverage = 1500

\* C9: the player summary is null exactly when there are no players;
\* otherwise topPerformer is the first element of playerStats and its
\* averagePoints is highestAverage, totalPlayers is the length of the list,
\* totalPointsAllPlayers the sum of the players' totalPoints, and
\* performanceSpread is highestAverage - lowestAverage (2 decimals).
C9_PlayerSummary ==
    lastCall = "player" =>
        LET stats == result.playerStats
            sum   == result.summary
        IN  /\ (sum = Null) <=> (stats = <<>>)
            /\ stats # <<>> =>
                  /\ sum.topPerformer = stats[1]
                  /\ sum.topPerformer.averagePoints = sum.highestAverage
                  /\ \A i \in DOMAIN stats :
                        /\ stats[i].averagePoints <= sum.highestAverage
                        /\ stats[i].averagePoints >= sum.lowestAverage
                  /\ \E i \in DOMAIN stats : stats[i].averagePoints = sum.lowestAverage
                  /\ sum.totalPlayers = Len(stats)
                  /\ sum.totalPointsAllPlayers =
                        SumSeq(Map(CountedRecords, PointsValue))
                  /\ sum.performanceSpread = sum.highestAverage - sum.lowestAverage

\* the summary of three players whose averages differ
C9_Witness ==
    /\ lastCall = "player"
    /\ result.summary # Null
    /\ result.summary.totalPlayers = 3
    /\ result.summary.performanceSpread = 1000
    /\ result.summary.topPerformer.playerId = athleteSessionData[2].athleteId

\* C10: empty arrays give sessionStats = [] and summary = null from
\* calculateTeamPerformanceTrend, playerStats = [] and summary = null from
\* calculatePlayerAveragePoints, sessionMetrics = [] and summary = null from
\* calculateAthletePerformanceMetrics, and so do records none of which is
\* participating.
C10_EmptyResults ==
    (lastCall \in {"team", "player", "athlete"} /\ CountedRecords = <<>>) =>
        /\ result.summary = Null
        /\ lastCall = "team" => result.sessionStats = <<>>
        /\ lastCall = "player" => result.playerStats = <<>>
        /\ lastCall = "athlete" => result.sessionMetrics = <<>>

\* a calculator has returned for records that exist but do not participate
C10_Witness ==
    /\ lastCall = "athlete"
    /\ Len(athleteSessionData) = 2
    /\ CountedRecords = <<>>
    /\ result = [sessionMetrics |-> <<>>, summary |-> Null]

(***************************************************************************)
(* Malformed numeric fields.                                               *)
(***************************************************************************)
NumericFields == {"points", "rebounds", "assists", "turnovers", "fouls", "rpe"}

\* a numeric field that is missing or holds a text no number can be read from
Unparseable(raw) == raw.kind \in {"other text", "undefined"}

\* the sum of field f over the records of rs in which it can be read
ParsedSum(rs, f) ==
    SumSeq(Map(SelectSeq(rs, LAMBDA r : ~Unparseable(r[f])), LAMBDA r : r[f].val))

\* C11: a participating record whose numeric field (points, rebounds,
\* assists, turnovers, fouls, rpe) is missing or non-numeric is taken as 0
\* for that field: it is counted as a participant / session in every count,
\* adds 0 to the field's total, and every calculator returns a result.
C11_MalformedFieldIsZero ==
    /\ lastCall = "team" =>
          \A i \in DOMAIN result.sessionStats :
             LET stat == result.sessionStats[i]
                 rs   == CountedOfSession(stat.sessionId)
             IN  /\ stat.participatingAthletes = Len(rs)
                 /\ stat.totalPoints = ParsedSum(rs, "points")
    /\ lastCall = "player" =>
          \A i \in DOMAIN result.playerStats :
             LET stat == result.playerStats[i]
                 rs   == CountedOfAthlete(stat.playerId)
             IN  /\ stat.sessionsParticipated = Len(rs)
                 /\ stat.totalPoints = ParsedSum(rs, "points")
                 /\ Len(stat.sessions) = Len(rs)
    /\ lastCall = "athlete" =>
          /\ Len(result.sessionMetrics) = Len(CountedRecords)
          /\ \A f \in NumericFields :
                Cardinality({i \in DOMAIN result.sessionMetrics :
                                result.sessionMetrics[i][f] = 0})
                  >= Cardinality({i \in DOMAIN CountedRecords :
                                     Unparseable(CountedRecords[i][f])})
          /\ CountedRecords # <<>> =>
                /\ result.summary.totalSessions = Len(CountedRecords)
                /\ \A f \in NumericFields :
                      result.summary.totals[f] = ParsedSum(CountedRecords, f)
    /\ (lastCall \in {"player", "athlete"} /\ CountedRecords # <<>>) =>
          result.summary # Null
    /\ (lastCall = "team" /\ SelectSeq(RecordsInScope, Counted) # <<>>) =>
          result.summary # Null

\* a session of two participants, one with points 10 and one whose points
\* are a text without a number, is reported with 2 athletes and 10 points
C11_Witness ==
    /\ lastCall = "team"
    /\ Len(athleteSessionData) = 2
    /\ athleteSessionData[1].points = RawOtherText
    /\ athleteSessionData[2].points = RawNumber(10)
    /\ Len(result.sessionStats) = 1
    /\ result.sessionStats[1].participatingAthletes = 2
    /\ result.sessionStats[1].totalPoints = 10
    /\ result.sessionStats[1].avgPointsPerPlayer = 500

(***************************************************************************)
(* The Y-axis range.                                                       *)
(***************************************************************************)
\* the data points in thousandths, as a set
PointSet == {10 * dataPoints[i] : i \in DOMAIN dataPoints}
LeastPoint    == CHOOSE v \in PointSet : \A w \in PointSet : v <= w
GreatestPoint == CHOOSE v \in PointSet : \A w \in PointSet : v >= w

\* C12 as stated: for every non-empty list of data points the returned
\* range has min <= every data point <= max, and max - min is an integer
\* multiple of stepSize.
C12_RangeCoversEveryPoint ==
    (lastCall = "yAxis" /\ dataPoints # <<>>) =>
        /\ \A v \in PointSet : result.min <= v /\ v <= result.max
        /\ (result.max - result.min) % result.stepSize = 0

\* C12: for every non-empty list of data points the returned range has
\* every data point <= max and min <= every data point that is not
\* negative, min itself being never negative, and max - min is an integer
\* multiple of stepSize.
C12_RangeCoversNonNegativePoints ==
    (lastCall = "yAxis" /\ dataPoints # <<>>) =>
        /\ \A v \in PointSet : v <= result.max
        /\ \A v \in PointSet : v >= 0 => result.min <= v
        /\ result.min >= 0
        /\ (result.max - result.min) % result.stepSize = 0

\* points 20 and 60 are shown on an axis from 15 to 65 in steps of 5
C12_Witness ==
    /\ lastCall = "yAxis"
    /\ dataPoints = <<2000, 6000>>
    /\ result = [min |-> 15000, max |-> 65000, stepSize |-> 5000]

GivenPoints == Map(dataPoints, Hundredths)

\* x lies in [2^(Magnitude(x) - 1), 2^Magnitude(x)) up to sign
Magnitude(x) == x.e + SignificandBits

\* x and y differ by less than 2^-49 of the power of two above the larger
\* magnitude of the list ys
WithinRounding(x, y, ys) ==
    LET d == DoubleSubtract(x, y)
    IN  \/ d = Zero
        \/ \E i \in DOMAIN ys :
              ys[i] # Zero /\ Magnitude(d) <= Magnitude(ys[i]) - 49

\* C14 as stated: calculateTrendLine returns a list as long as its input;
\* for fewer than 2 points it returns the input unchanged; for exactly 2
\* points the fitted values equal the two input values exactly.
C14_TwoPointFitIsExact ==
    lastCall = "trendLine" =>
        /\ Len(result.trendLine) = Len(dataPoints)
        /\ Len(dataPoints) < 2 => result.trendLine = GivenPoints
        /\ Len(dataPoints) = 2 => result.trendLine = GivenPoints

\* C14: calculateTrendLine returns a list as long as its input; for fewer
\* than 2 points it returns the input unchanged; for exactly 2 points each
\* fitted value equals its input value up to the rounding of the double
\* arithmetic, within 2^-49 of the magnitude of the larger input.
C14_TwoPointFitWithinRounding ==
    lastCall = "trendLine" =>
        /\ Len(result.trendLine) = Len(dataPoints)
        /\ Len(dataPoints) < 2 => result.trendLine = GivenPoints
        /\ Len(dataPoints) = 2 =>
              \A i \in 1..2 :
                 WithinRounding(result.trendLine[i], GivenPoints[i], GivenPoints)

\* the line fitted to 0.1 and 0.3 ends in 0.3 and starts near 0.1, not in it
C14_Witness ==
    /\ lastCall = "trendLine"
    /\ dataPoints = <<10, 30>>
    /\ result.trendLine[2] = Hundredths(30)
    /\ result.trendLine[1] # Hundredths(10)
    /\ WithinRounding(result.trendLine[1], Hundredths(10), GivenPoints)

(***************************************************************************)
(* Labels and ticks of the x-axis.                                         *)
(***************************************************************************)
\* the ticks returned, as a set
TickSet == {result.tickIndices[k] : k \in DOMAIN result.tickIndices}

\* the local calendar week (Monday to Sunday) and calendar month of the
\* point with index i, counted from 0
CalendarWeekOf(i)  == LocalDay(parsedData[i + 1].date) \div 7
CalendarMonthOf(i) == <<getFullYear(parsedData[i + 1].date), getMonth(parsedData[i + 1].date)>>

FirstOfWeek(i)  == i = 0 \/ CalendarWeekOf(i) # CalendarWeekOf(i - 1)
FirstOfMonth(i) == i = 0 \/ CalendarMonthOf(i) # CalendarMonthOf(i - 1)

\* how many calendar weeks of the data come before the week of point i
WeekRank(i) == Cardinality({j \in 0..i : FirstOfWeek(j)}) - 1

\* C15: for every N and every chronologically sorted input of N points the
\* tickIndices returned by generateSmartLabels lie in [0, N) and are
\* strictly increasing, and the labels array has exactly N entries.
C15_TicksInRangeAndIncreasing ==
    lastCall = "smartLabels" =>
        /\ Len(result.labels) = Len(parsedData)
        /\ \A k \in DOMAIN result.tickIndices :
              /\ result.tickIndices[k] >= 0
              /\ result.tickIndices[k] < Len(parsedData)
        /\ \A k \in 1..(Len(result.tickIndices) - 1) :
              result.tickIndices[k] < result.tickIndices[k + 1]

\* 30 sessions, one every 3 days, get a tick on the first session and on
\* later ones, and 30 labels
C15_Witness ==
    /\ lastCall = "smartLabels"
    /\ Len(parsedData) = 30
    /\ parsedData[2].date - parsedData[1].date = 3 * MinutesPerDay
    /\ Len(result.labels) = 30
    /\ Len(result.tickIndices) > 3
    /\ result.tickIndices[1] = 0

\* C16: generateSmartLabels picks the tick set by the data count N: every
\* index for N <= 10; every even index and the last index for 11 <= N <= 20;
\* for 21 <= N <= 50 the index of the first session of every other
\* Monday-start calendar week of the data (weeks 0, 2, 4, ... in order of
\* appearance); for N > 50 the index of the first session of every calendar
\* month of the data.
C16_TickSetByCount ==
    lastCall = "smartLabels" =>
        LET N == Len(parsedData) IN
        /\ N <= 10 => TickSet = 0..(N - 1)
        /\ (11 <= N /\ N <= 20) =>
              TickSet = {i \in 0..(N - 1) : i % 2 = 0} \cup {N - 1}
        /\ (21 <= N /\ N <= 50) =>
              TickSet = {i \in 0..(N - 1) : FirstOfWeek(i) /\ WeekRank(i) % 2 = 0}
        /\ N > 50 => TickSet = {i \in 0..(N - 1) : FirstOfMonth(i)}

\* C17: getMaxXTicks(N) is N for N <= 10, 10 for 11 <= N <= 20, 8 for
\* 21 <= N <= 50 and 6 for N > 50.
C17_MaxTicksByCount ==
    lastCall = "maxXTicks" =>
        LET N == Len(parsedData) IN
        /\ N <= 10 => result.maxTicksLimit = N
        /\ (11 <= N /\ N <= 20) => result.maxTicksLimit = 10
        /\ (21 <= N /\ N <= 50) => result.maxTicksLimit = 8
        /\ N > 50 => result.maxTicksLimit = 6

\* a chart of 51 points is given at most 6 ticks
C17_Witness ==
    /\ lastCall = "maxXTicks"
    /\ Len(parsedData) = 51
    /\ result.maxTicksLimit = 6

(***************************************************************************)
(* The metrics of one athlete.                                             *)
(***************************************************************************)
\* the number a numeric field of a record stands for
FieldValue(r, f) == IF Unparseable(r[f]) THEN 0 ELSE r[f].val

\* what a record shows in sessionMetrics, and what an entry shows
RecordView(r) ==
    <<r.sessionId, r.sessionDate, [f \in NumericFields |-> FieldValue(r, f)]>>
MetricView(m) ==
    <<m.sessionId, m.sessionDate, [f \in NumericFields |-> m[f]]>>

\* C18: calculateAthletePerformanceMetrics returns in sessionMetrics exactly
\* the participating records of the input, one entry per record, in order
\* of non-decreasing session date; the summary's totals are the sums over
\* those entries and each average is total / number of entries (2
\* decimals), for points, rebounds, assists, turnovers, fouls and rpe.
C18_AthleteMetrics ==
    lastCall = "athlete" =>
        LET metrics == result.sessionMetrics IN
        /\ Len(metrics) = Len(CountedRecords)
        /\ \A i \in DOMAIN CountedRecords :
              Cardinality({j \in DOMAIN metrics :
                              MetricView(metrics[j]) = RecordView(CountedRecords[i])})
                = Cardinality({j \in DOMAIN CountedRecords :
                                  RecordView(CountedRecords[j]) = RecordView(CountedRecords[i])})
        /\ \A i \in 1..(Len(metrics) - 1) :
              metrics[i].sessionDate <= metrics[i + 1].sessionDate
        /\ metrics # <<>> =>
              /\ result.summary.totalSessions = Len(metrics)
              /\ \A f \in NumericFields :
                    /\ result.summary.totals[f]
                         = SumSeq([i \in DOMAIN metrics |-> metrics[i][f]])
                    /\ result.summary.totals[f]
                         = SumSeq(Map(CountedRecords, LAMBDA r : FieldValue(r, f)))
                    /\ Nearest(result.summary.averages[f], result.summary.totals[f],
                               Len(metrics), 100)

\* records of day 3, a day missed and day 1 come out as day 1, day 3, with
\* 20 points in all and 10 on average
C18_Witness ==
    /\ lastCall = "athlete"
    /\ Map(athleteSessionData, LAMBDA r : <<r.sessionDate, r.attendance, PointsValue(r)>>)
         = <<(<<3, "Present", 15>>), (<<2, "Absent", 15>>), (<<1, "Present", 5>>)>>
    /\ Map(result.sessionMetrics, LAMBDA m : <<m.sessionDate, m.points>>)
         = <<(<<1, 5>>), (<<3, 15>>)>>
    /\ result.summary.totals.points = 20
    /\ result.summary.averages.points = 1000

\* the points of the participating records, and the earliest day on which
\* p points were scored
CountedPoints == {PointsValue(CountedRecords[i]) : i \in DOMAIN CountedRecords}
FirstDayOf(p) ==
    LET days == {CountedRecords[i].sessionDate :
                    i \in {j \in DOMAIN CountedRecords : PointsValue(CountedRecords[j]) = p}}
    IN  CHOOSE d \in days : \A e \in days : d <= e

\* C19: bestPerformance is a session with the most points and
\* worstPerformance a session with the fewest; of several sessions with
\* the most (or the fewest) points, the first in the date-sorted
\* sessionMetrics is taken.
C19_BestAndWorst ==
    (lastCall = "athlete" /\ CountedRecords # <<>>) =>
        LET metrics == result.sessionMetrics
            best    == result.summary.bestPerformance
            worst   == result.summary.worstPerformance
            most    == CHOOSE p \in CountedPoints : \A q \in CountedPoints : p >= q
            fewest  == CHOOSE p \in CountedPoints : \A q \in CountedPoints : p <= q
            firstOf(p) == CHOOSE i \in DOMAIN metrics :
                             /\ metrics[i].points = p
                             /\ \A j \in 1..(i - 1) : metrics[j].points # p
        IN  /\ best.points = most
            /\ worst.points = fewest
            /\ best.date = metrics[firstOf(most)].sessionDate
            /\ best.session = metrics[firstOf(most)].sessionName
            /\ worst.date = metrics[firstOf(fewest)].sessionDate
            /\ worst.session = metrics[firstOf(fewest)].sessionName
            /\ best.date = FirstDayOf(most)
            /\ worst.date = FirstDayOf(fewest)

\* 15 points on day 3 and on day 1 and 5 points on day 2: the best
\* performance is that of day 1
C19_Witness ==
    /\ lastCall = "athlete"
    /\ Map(athleteSessionData, LAMBDA r : <<r.sessionDate, r.attendance, PointsValue(r)>>)
         = <<(<<3, "Present", 15>>), (<<1, "Present", 15>>), (<<2, "Present", 5>>)>>
    /\ result.summary.bestPerformance.points = 15
    /\ result.summary.bestPerformance.date = 1
    /\ result.summary.worstPerformance.date = 2

(***************************************************************************)
(* Rounding.                                                               *)
(***************************************************************************)
\* t tenths is 100 - (population standard deviation / mean) * 100 of the
\* values, clamped to [0,100] and rounded to 1 decimal (100 for fewer than
\* 2 values and for a mean that is not positive)
RoundedConsistencyOf(t, values) ==
    LET S == SumSeq(values)
        D == Len(values) * SumSquares(values) - S * S
    IN  /\ t \in 0..1000
        /\ (Len(values) < 2 \/ S <= 0) => t = 1000
        /\ (Len(values) >= 2 /\ S > 0 /\ D >= S * S) => t = 0
        /\ (Len(values) >= 2 /\ S > 0 /\ D < S * S) =>
              /\ ScaledRootAtMost(D, (2001 - 2 * t) * S)
              /\ t < 1000 => ~ScaledRootBelow(D, (1999 - 2 * t) * S)

\* the averages the calculators round to 2 decimals are so rounded, and the
\* consistency scores are rounded to 1 decimal
PointAveragesAndScoresRounded ==
    /\ (lastCall = "team" /\ result.summary # Null) =>
          LET stats == result.sessionStats
              avgs  == Map(stats, LAMBDA x : x.avgPointsPerPlayer)
          IN  /\ \A i \in DOMAIN stats :
                    Nearest(stats[i].avgPointsPerPlayer, stats[i].totalPoints,
                            stats[i].participatingAthletes, 100)
              /\ Nearest(result.summary.overallAverage, SumSeq(avgs), Len(stats), 1)
              /\ RoundedConsistencyOf(result.summary.consistencyScore, avgs)
    /\ (lastCall = "player" /\ result.summary # Null) =>
          LET stats == result.playerStats
              avgs  == Map(stats, LAMBDA x : x.averagePoints)
          IN  /\ \A i \in DOMAIN stats :
                    Nearest(stats[i].averagePoints, stats[i].totalPoints,
                            stats[i].sessionsParticipated, 100)
              /\ Nearest(result.summary.overallAverage, SumSeq(avgs), Len(stats), 1)
    /\ (lastCall = "athlete" /\ result.summary # Null) =>
          LET metrics == result.sessionMetrics IN
          /\ \A f \in NumericFields :
                Nearest(result.summary.averages[f], result.summary.totals[f],
                        Len(metrics), 100)
          /\ \A f \in {"points", "rebounds", "assists"} :
                RoundedConsistencyOf(result.summary.consistency[f],
                                     [i \in DOMAIN metrics |-> metrics[i][f]])

\* C20 as stated: every average in every output (avgPointsPerPlayer,
\* overallAverage, averageAthletesPerSession, averagePoints,
\* averageSessionsPerPlayer and the athlete's averages per metric) is
\* rounded to 2 decimals, and every consistency score to 1 decimal.
C20_EveryAverageTwoDecimals ==
    /\ PointAveragesAndScoresRounded
    /\ (lastCall = "team" /\ result.summary # Null) =>
          Nearest(10 * result.summary.averageAthletesPerSession,
                  result.summary.totalAthletesTracked, Len(result.sessionStats), 100)
    /\ (lastCall = "player" /\ result.summary # Null) =>
          Nearest(10 * result.summary.averageSessionsPerPlayer,
                  SumSeq(Map(result.playerStats, LAMBDA x : x.sessionsParticipated)),
                  Len(result.playerStats), 100)

\* C20: avgPointsPerPlayer, both overallAverage values, averagePoints and
\* the athlete's averages per metric are rounded to 2 decimals;
\* averageAthletesPerSession and averageSessionsPerPlayer are rounded to 1
\* decimal; every consistency score is rounded to 1 decimal.
C20_AveragesRounded ==
    /\ PointAveragesAndScoresRounded
    /\ (lastCall = "team" /\ result.summary # Null) =>
          Nearest(result.summary.averageAthletesPerSession,
                  result.summary.totalAthletesTracked, Len(result.sessionStats), 10)
    /\ (lastCall = "player" /\ result.summary # Null) =>
          Nearest(result.summary.averageSessionsPerPlayer,
                  SumSeq(Map(result.playerStats, LAMBDA x : x.sessionsParticipated)),
                  Len(result.playerStats), 10)

\* four participations in three sessions are reported as 1.3 athletes per
\* session
C20_Witness ==
    /\ lastCall = "team"
    /\ Len(result.sessionStats) = 3
    /\ result.summary.totalAthletesTracked = 4
    /\ result.summary.averageAthletesPerSession = 13

(***************************************************************************)
(* C22: the date of a session stat.                                        *)
(***************************************************************************)
\* the records of the input that carry the id of session number i
MatchingRecords(i) ==
    {k \in 1..Len(athleteSessionData) :
        athleteSessionData[k].sessionId = trainingSessions[i].id}

FirstMatchingRecord(i) ==
    athleteSessionData[CHOOSE k \in MatchingRecords(i) :
                           \A other \in MatchingRecords(i) : k <= other]

\* session number i has a record that counts
HasParticipant(i) ==
    \E k \in MatchingRecords(i) : Counted(athleteSessionData[k])

\* the date the stat of session number i is to carry
DateToCarry(i) ==
    IF trainingSessions[i].sessionDate # NoDate
    THEN trainingSessions[i].sessionDate
    ELSE FirstMatchingRecord(i).sessionDate

\* C22: after calculateTeamPerformanceTrend, the session stats carry, id by
\* id and as often as the sessions call for, the session's own sessionDate
\* when it has one and otherwise the sessionDate of the first record of the
\* input with the session's id, whether that record counts or not.
C22_SessionDateOrFirstRecord ==
    lastCall = "team" =>
        \A id \in SessionIds, date \in {d \in 0..3 : d # NoDate} :
            Cardinality({k \in 1..Len(result.sessionStats) :
                            /\ result.sessionStats[k].sessionId = id
                            /\ result.sessionStats[k].sessionDate = date})
          = Cardinality({i \in 1..Len(trainingSessions) :
                            /\ trainingSessions[i].id = id
                            /\ HasParticipant(i)
                            /\ DateToCarry(i) = date})

\* a session without a date whose first record is of a day missed and of
\* another day than the first record that counts
C22_Witness ==
    /\ lastCall = "team"
    /\ Len(result.sessionStats) = 1
    /\ \E i \in 1..Len(trainingSessions) :
          /\ trainingSessions[i].sessionDate = NoDate
          /\ HasParticipant(i)
          /\ ~Counted(FirstMatchingRecord(i))
          /\ \A k \in MatchingRecords(i) :
                Counted(athleteSessionData[k]) =>
                    athleteSessionData[k].sessionDate # DateToCarry(i)
          /\ result.sessionStats[1].sessionDate = FirstMatchingRecord(i).sessionDate

(***************************************************************************)
(* C23: sessions without a record that counts.                             *)
(***************************************************************************)
SessionsWithParticipant == {i \in 1..Len(trainingSessions) : HasParticipant(i)}
SessionsWithoutParticipant == {i \in 1..Len(trainingSessions) : ~HasParticipant(i)}
SessionsWithoutRecord == {i \in 1..Len(trainingSessions) : MatchingRecords(i) = {}}

\* the sessions without a record that counts have no stat: there are as
\* many stats as sessions with such a record, each with the id of one
NoStatWithoutParticipant ==
    /\ Len(result.sessionStats) = Cardinality(SessionsWithParticipant)
    /\ \A k \in 1..Len(result.sessionStats) :
          \E i \in SessionsWithParticipant :
              trainingSessions[i].id = result.sessionStats[k].sessionId

\* C23 as stated: after calculateTeamPerformanceTrend there is a warning for
\* every session without a record that counts, and none of them has a stat.
C23_WarningForEverySessionLeftOut ==
    lastCall = "team" =>
        /\ Len(console) = Cardinality(SessionsWithoutParticipant)
        /\ NoStatWithoutParticipant

\* C23, amended: after calculateTeamPerformanceTrend no session without a
\* record that counts has a stat, and there is a warning for every session
\* without any record, and for no other.
C23_WarningForSessionWithoutRecord ==
    lastCall = "team" =>
        /\ Len(console) = Cardinality(SessionsWithoutRecord)
        /\ \A k \in 1..Len(console) :
              console[k].warn = "No athlete data found for session"
        /\ NoStatWithoutParticipant

\* one session whose only records are of athletes who were absent, one
\* session without records, and so one warning and no stat
C23_Witness ==
    /\ lastCall = "team"
    /\ \E i \in SessionsWithoutParticipant : MatchingRecords(i) # {}
    /\ SessionsWithoutRecord # {}
    /\ Len(console) = 1
    /\ result.sessionStats = <<>>

(***************************************************************************)
(* C24: the datasets of createChartConfig.                                 *)
(***************************************************************************)
DatasetLabels == {result.datasets[k].label : k \in 1..Len(result.datasets)}

\* C24: the configuration of createChartConfig has the dataset 'Trend'
\* exactly when there are 5 or more stats, and then after the main series
\* and with one value per stat; with fewer stats the main series is the
\* only dataset; the main series always has one value per stat.
C24_TrendFromFivePoints ==
    lastCall = "chartConfig" =>
        /\ ("Trend" \in DatasetLabels) <=> (Len(chartStats) >= 5)
        /\ result.datasets[1].label = "Average Points per Player"
        /\ Len(result.datasets[1].data) = Len(chartStats)
        /\ Len(chartStats) < 5 => Len(result.datasets) = 1
        /\ Len(chartStats) >= 5 =>
              /\ Len(result.datasets) = 2
              /\ result.datasets[2].label = "Trend"
              /\ Len(result.datasets[2].data) = Len(chartStats)

\* exactly five stats, given out of the order of their dates
C24_Witness ==
    /\ lastCall = "chartConfig"
    /\ Len(chartStats) = 5
    /\ chartStats[1].sessionDate > chartStats[2].sessionDate
    /\ Len(result.datasets) = 2
    /\ result.datasets[1].data[1] = chartStats[5].avgPointsPerPlayer

(***************************************************************************)
(* C21: what the calculators and shapers leave alone.                      *)
(***************************************************************************)
\* C21: a call of calculateTeamPerformanceTrend, calculatePlayerAveragePoints,
\* calculateAthletePerformanceMetrics, generateSmartLabels,
\* calculateYAxisRange, calculateTrendLine, createChartConfig or
\* createAthleteMetricChart (the steps that change lastCall) leaves every
\* array of the caller as it was, in content and order, and leaves the
\* chartInstance of the analytics object as it was, set or not.
C21_CallsLeaveArgumentsAndObject ==
    [][lastCall' # lastCall =>
          UNCHANGED <<trainingSessions, athleteSessionData, avgPoints, dataPoints,
                      chartStats, chartMetrics, parsedData, chartInstance>>]_vars

\* records given out of the order of their dates to an object that holds
\* a chart: the metrics returned are sorted, the records are as given
C21_Witness ==
    /\ lastCall = "athlete"
    /\ chartInstance # Null
    /\ Len(athleteSessionData) = 2
    /\ athleteSessionData[1].sessionDate > athleteSessionData[2].sessionDate
    /\ Len(result.sessionMetrics) = 2
    /\ result.sessionMetrics[1].sessionDate < result.sessionMetrics[2].sessionDate

(***************************************************************************)
(* The loader: what the script elements and the callbacks of a call of     *)
(* loadFirebaseWithFallback tell about the order of events.  A script      *)
(* element is in scripts[id] from the moment it is requested, and its      *)
(* state never goes back to "pending".                                     *)
(***************************************************************************)
Stages == <<"app", "auth", "firestore">>

\* the script elements the loadScript call of a stage has requested, in order
ScriptsOfStage(id, stage) == SelectSeq(scripts[id], LAMBDA script : script.stage = stage)

\* the library of a stage has loaded
StageLoaded(id, stage) ==
    \E k \in 1..Len(scripts[id]) :
        scripts[id][k].stage = stage /\ scripts[id][k].state = "loaded"

\* a stage has failed on all of its URLs
StageFailed(id, stage) ==
    \A u \in 1..Len(UrlsOf(stage)) :
        \E k \in 1..Len(scripts[id]) :
            /\ scripts[id][k].stage = stage
            /\ scripts[id][k].src = UrlsOf(stage)[u]
            /\ scripts[id][k].state = "failed"

\* what the loadScript call of a stage has given its callback
ReturnedOfStage(id, stage) ==
    SelectSeq(loads[id].returned, LAMBDA entry : entry.stage = stage)

\* C26: loadFirebaseWithFallback loads App, then Auth, then Firestore: a
\* script of a later library is requested only when a script of the library
\* before it has loaded, the callback is called with true only when all
\* three have loaded, and when a stage has failed on all of its URLs no
\* script of a later stage is requested and the callback, if one was handed
\* in, has been called with false and with nothing else
C26_LibrariesInSequence ==
    \A id \in 1..MaxLoads :
        /\ \A k \in 1..Len(scripts[id]) : \A n \in 2..Len(Stages) :
              scripts[id][k].stage = Stages[n] =>
                  /\ \E j \in 1..(k - 1) :
                        /\ scripts[id][j].stage = Stages[n - 1]
                        /\ scripts[id][j].state = "loaded"
                  /\ \A j \in (k + 1)..Len(scripts[id]) :
                        scripts[id][j].stage # Stages[n - 1]
        /\ (\E c \in 1..Len(loads[id].called) : loads[id].called[c]) =>
              \A n \in 1..Len(Stages) : StageLoaded(id, Stages[n])
        /\ \A n \in 1..Len(Stages) :
              StageFailed(id, Stages[n]) =>
                  /\ \A k \in 1..Len(scripts[id]) : \A m \in (n + 1)..Len(Stages) :
                        scripts[id][k].stage # Stages[m]
                  /\ loads[id].hasCallback => loads[id].called = <<FALSE>>

\* a call with a callback has loaded all three libraries, one of them from
\* its second URL, and another call with a callback has failed on both URLs
\* of the Auth library
C26_Witness ==
    \E id, other \in 1..MaxLoads :
        /\ loads[id].called = <<TRUE>>
        /\ \E k \in 1..Len(scripts[id]) : scripts[id][k].state = "failed"
        /\ StageFailed(other, "auth")
        /\ loads[other].called = <<FALSE>>

\* C27: loadScript requests its URLs in list order, the next one only when
\* the one before it has reported an error; once none of its script
\* elements is pending its callback has been called exactly once, with true
\* exactly when a URL has loaded, and before that not at all; no URL is
\* requested after one has loaded
C27_UrlsInOrderOneCallback ==
    \A id \in 1..MaxLoads : \A n \in 1..Len(Stages) :
        LET requested == ScriptsOfStage(id, Stages[n])
            returned  == ReturnedOfStage(id, Stages[n])
            pending   == \E k \in 1..Len(requested) : requested[k].state = "pending"
            loaded    == \E k \in 1..Len(requested) : requested[k].state = "loaded"
        IN  /\ Len(requested) <= Len(UrlsOf(Stages[n]))
            /\ \A k \in 1..Len(requested) :
                  /\ requested[k].src = UrlsOf(Stages[n])[k]
                  /\ k < Len(requested) => requested[k].state = "failed"
            /\ (requested = <<>> \/ pending) => returned = <<>>
            /\ (requested # <<>> /\ ~pending) =>
                  returned = <<[stage |-> Stages[n], success |-> loaded]>>

\* one loadScript call has given true after its first URL failed and its
\* second loaded, and another has given false after both of its URLs failed
C27_Witness ==
    \E id \in 1..MaxLoads : \E n, m \in 1..Len(Stages) :
        /\ Len(ScriptsOfStage(id, Stages[n])) = 2
        /\ ScriptsOfStage(id, Stages[n])[2].state = "loaded"
        /\ ReturnedOfStage(id, Stages[n]) = <<[stage |-> Stages[n], success |-> TRUE]>>
        /\ StageFailed(id, Stages[m])
        /\ ReturnedOfStage(id, Stages[m]) = <<[stage |-> Stages[m], success |-> FALSE]>>

(***************************************************************************)
(* script.js: sign-up, the guard and the login form.                       *)
(***************************************************************************)
\* handleSignupSubmit has returned after it created an account
SignupReturnedWithAccount ==
    /\ signup.uid # NullString
    /\ signup.pc \in {"failed", "setTimeout", "done"}

\* C25: whenever handleSignupSubmit has created an account, the document
\* store holds a profile of that uid with the role of the page once the
\* handler has returned, whatever failed after the account was created
C25_ProfileOfEveryAccountCreated ==
    SignupReturnedWithAccount =>
        RoleIn(profiles, signup.uid) = getRoleFromPageForSignup(pathname)

\* the invocations of the guard's handler that have started and not returned
GuardsInFlight == {i \in 1..Len(guards) : guards[i].pc # "done"}

\* C28: at any time at most one invocation of the onAuthStateChanged
\* handler of setupAuthGuards is between its start and its return
C28_OneGuardInFlight ==
    Cardinality(GuardsInFlight) <= 1

\* the navigations the guard has issued
GuardNavigations == SelectSeq(navigations, LAMBDA n : n.by = "guard")

\* C29: in one page load the guard issues at most one navigation, and it
\* issues none in a step that starts with window._redirecting true
C29_GuardNavigatesOnce ==
    /\ [](Len(GuardNavigations) <= 1)
    /\ [][redirecting => GuardNavigations' = GuardNavigations]_vars

\* the navigations to a dashboard issued for the account of the login form,
\* by the login handler or by the guard
DashboardNavigationsOfLogin ==
    SelectSeq(navigations,
              LAMBDA n : /\ n.to \in DashboardPages
                         /\ n.user = login.uid
                         /\ n.by \in {"guard", "handleLoginSubmit"})

\* handleLoginSubmit has found the role of the account to differ from the
\* role of the login page
LoginFoundWrongRole == login.pc \in {"signOut", "signedOut", "blocked"}

\* C30: when handleLoginSubmit has signed in an account whose role is not
\* the page's, the user is signed out when the handler returns, and from the
\* moment the handler has found the role out neither it nor the guard
\* issues a navigation to a dashboard for that account
C30_WrongRoleLoginBlocked ==
    /\ [](login.pc = "blocked" => currentUser = NullString)
    /\ [][LoginFoundWrongRole =>
             DashboardNavigationsOfLogin' = DashboardNavigationsOfLogin]_vars

(***************************************************************************)
(* The login flag.                                                         *)
(***************************************************************************)
\* handleLoginSubmit is between its first await and its return
LoginInFlight == login.pc \in {"signIn", "getUserRole", "signOut", "signedOut"}

\* C31: window._loginInProgress is true only while a login attempt is in
\* flight: once handleLoginSubmit has returned, on whatever path, it is false
C31_LoginFlagOnlyInFlight ==
    loginInProgress => LoginInFlight

(***************************************************************************)
(* Logout and the profile cache.                                           *)
(***************************************************************************)
\* C32: once logout has removed profile_<uid> from localStorage, no profile
\* of that uid is cached again (nobody signs in on the page of the logout),
\* also when a background sync of getUserProfile comes back afterwards
C32_LogoutClearsCache ==
    logoutCall.uid # NullString => localStorage[logoutCall.uid] = Null

(***************************************************************************)
(* The sport form and the athlete dashboard.                               *)
(***************************************************************************)
\* the navigations the guard has issued to the sport-selection page
SentToSportSelection ==
    SelectSeq(navigations,
              LAMBDA n : n.by = "guard" /\ n.to = SportSelectionPage)

\* C33: an athlete whose stored profile has a sport (handleSportSelection
\* saved it, or the athlete signed up with it) is never sent to the
\* sport-selection page by the guard, whatever localStorage holds
C33_NoBounceAfterSportSaved ==
    \A k \in 1..Len(SentToSportSelection) :
        ~HasSport(profiles[SentToSportSelection[k].user])

(***************************************************************************)
(* The guard on the dashboards.                                            *)
(***************************************************************************)
\* the guard is registered and has handled every auth-state event so far
GuardHandledAll ==
    /\ listening
    /\ events = <<>>
    /\ \A i \in 1..Len(guards) : guards[i].pc = "done"

\* a navigation to one of the pages has been issued on this page
NavigatedTo(pages) == \E k \in 1..Len(navigations) : navigations[k].to \in pages

DashboardOf(role) ==
    IF role = "coach" THEN "coach-dashboard.html" ELSE "athlete-dashboard.html"

\* a dashboard is loaded and the signed-in user's stored role is the other one
OnOtherDashboard ==
    /\ pathname \in DashboardPages
    /\ currentUser # NullString
    /\ RoleIn(profiles, currentUser)
           \notin {NullString, getRoleFromPageForDashboard(pathname)}

\* C34 as stated: once the guard has handled the events, a user on the other
\* role's dashboard has been navigated to the dashboard of the own role
C34_OtherRoleSentToOwnDashboard ==
    (GuardHandledAll /\ OnOtherDashboard)
        => NavigatedTo({DashboardOf(RoleIn(profiles, currentUser))})

\* C34, amended: a user on the other role's dashboard is not left there: once
\* the guard has handled the events, a navigation to the own dashboard, or
\* (the role lookup having failed) to the login page of the dashboard's
\* role, has been issued, and while the user stays signed in this comes about
C34_OtherRoleLeavesDashboard ==
    /\ [](    (GuardHandledAll /\ OnOtherDashboard)
           => NavigatedTo({DashboardOf(RoleIn(profiles, currentUser)),
                           LoginPageOfGuard(pathname)}))
    /\ (OnOtherDashboard
            ~> (\/ ~OnOtherDashboard
                \/ NavigatedTo({DashboardOf(RoleIn(profiles, currentUser)),
                                LoginPageOfGuard(pathname)})))

\* the guard has sent a coach away from the athlete dashboard, to the
\* coach dashboard
C34_Witness ==
    /\ pathname = "athlete-dashboard.html"
    /\ GuardHandledAll
    /\ OnOtherDashboard
    /\ \E k \in 1..Len(navigations) :
          navigations[k] = [by |-> "guard", user |-> currentUser,
                            to |-> "coach-dashboard.html"]

\* nobody is signed in, or the signed-in user has no stored role
WithoutRole ==
    \/ currentUser = NullString
    \/ RoleIn(profiles, currentUser) = NullString

\* C35: on a dashboard, once the guard has handled the events, a visitor
\* who is not signed in has been navigated to the login page of the
\* dashboard's role, and a signed-in user without a role to a login page
C35_NoUserOrNoRoleSentToLogin ==
    (GuardHandledAll /\ pathname \in DashboardPages /\ WithoutRole)
        => IF currentUser = NullString
           THEN NavigatedTo({LoginPageOfGuard(pathname)})
           ELSE NavigatedTo(LoginPages)

(***************************************************************************)
(* The teams of the page and of the store.                                 *)
(***************************************************************************)
Without(members, athleteId) == SelectSeq(members, LAMBDA id : id # athleteId)

\* C36: a call of removeAthleteFromTeam whose updateDoc failed has left the
\* members of the page's team as they were, and one whose updateDoc
\* succeeded has made the members of the page's team and of the stored
\* team the previous list without the athlete, the others in their order
\* (said of a call that was the only one on the page)
C36_TeamAndStoredTeamAgree ==
    Len(removals) = 1 =>
        LET call == removals[1]
        IN  /\ call.pc = "failed" =>
                  teams[call.team].memberIds = call.previous
            /\ call.pc = "removed" =>
                  /\ teams[call.team].memberIds = Without(call.previous, call.athleteId)
                  /\ storedTeams[teams[call.team].id] = Without(call.previous, call.athleteId)

(***************************************************************************)
(* The totals of the team and of the player calculator, in the binary64    *)
(* arithmetic of the code.  The points of a record are held in hundredths. *)
(***************************************************************************)
\* const points = parseFloat(athlete.points) || 0
PointsOf(athlete) == Hundredths(parseFloatOrZero(athlete.points))

\* totalPoints += points, over the participants of one session in order
RECURSIVE AddPoints(_, _)
AddPoints(totalPoints, participants) ==
    IF participants = <<>> THEN totalPoints
    ELSE AddPoints(DoubleAdd(totalPoints, PointsOf(Head(participants))),
                   Tail(participants))

\* SessionTotalsOf counting every record of the session, participating or not
SessionTotalsOf_CountAll(session, data) ==
    LET sessionAthletes == SelectSeq(data, LAMBDA a : a.sessionId = session.id)
        participants    == SelectSeq(sessionAthletes, isParticipating)
    IN  IF Len(sessionAthletes) = 0 THEN <<>>
        ELSE << [sessionId   |-> session.id,
                 sessionDate |-> IF session.sessionDate = NoDate
                                 THEN sessionAthletes[1].sessionDate
                                 ELSE session.sessionDate,
                 totalPoints |-> AddPoints(Zero, participants),
                 participatingAthletes |-> Len(sessionAthletes)] >>

\* the body of trainingSessions.forEach: what it pushes on sessionStats
SessionTotalsOf(session, data) ==
    LET sessionAthletes == SelectSeq(data, LAMBDA a : a.sessionId = session.id)
        participants    == SelectSeq(sessionAthletes, isParticipating)
    IN  IF Len(sessionAthletes) = 0 THEN <<>>      \* console.warn; return
        ELSE IF Len(participants) > 0
        THEN << [sessionId   |-> session.id,
                 sessionDate |-> IF session.sessionDate = NoDate
                                 THEN sessionAthletes[1].sessionDate
                                 ELSE session.sessionDate,
                 totalPoints |-> AddPoints(Zero, participants),
                 participatingAthletes |-> Len(participants)] >>
        ELSE <<>>

RECURSIVE CollectSessionTotals(_, _)
CollectSessionTotals(sessions, data) ==
    IF sessions = <<>> THEN <<>>
    ELSE SessionTotalsOf(Head(sessions), data)
             \o CollectSessionTotals(Tail(sessions), data)

\* stats.reduce((sum, s) => sum + s.totalPoints, 0)
RECURSIVE ReduceTotalPoints(_, _)
ReduceTotalPoints(sum, stats) ==
    IF stats = <<>> THEN sum
    ELSE ReduceTotalPoints(DoubleAdd(sum, Head(stats).totalPoints), Tail(stats))

\* the totals of generateSummary
SummaryTotals(sessionStats) ==
    IF Len(sessionStats) = 0 THEN Null
    ELSE [totalAthletesTracked |->
              SumSeq(Map(sessionStats, LAMBDA s : s.participatingAthletes)),
          totalPointsScored |-> ReduceTotalPoints(Zero, sessionStats)]

\* calculateTeamPerformanceTrend(...).summary
TeamTotals(sessions, data) ==
    SummaryTotals(sortBySessionDate(CollectSessionTotals(sessions, data)))

\* the body of athleteSessionData.forEach
AccumulatePlayerTotals(playerStats, athleteData) ==
    LET playerId == athleteData.athleteId
        created  == IF HasPlayer(playerStats, playerId) THEN playerStats
                    ELSE Append(playerStats,
                                [playerId |-> playerId,
                                 totalPoints |-> Zero,
                                 sessionsParticipated |-> 0])
    IN  IF isParticipating(athleteData)
        THEN [i \in 1..Len(created) |->
                 IF created[i].playerId = playerId
                 THEN [created[i] EXCEPT
                          !.totalPoints = DoubleAdd(@, PointsOf(athleteData)),
                          !.sessionsParticipated = @ + 1]
                 ELSE created[i]]
        ELSE playerStats

RECURSIVE CollectPlayerTotals(_, _)
CollectPlayerTotals(playerStats, data) ==
    IF data = <<>> THEN playerStats
    ELSE CollectPlayerTotals(AccumulatePlayerTotals(playerStats, Head(data)),
                             Tail(data))

\* Math.round(y) for a double y >= 0: the integer floor(y + 1/2)
MathRound(y) ==
    IF y.m = <<>> \/ y.e >= 0 THEN y
    ELSE RoundToDouble(FALSE,
                       ShiftRight(DigitsAdd(y.m, ShiftLeft(<<1>>, -y.e - 1), 0),
                                  -y.e).q,
                       0, FALSE)

\* Math.round(avgPoints * 100) / 100 with
\* avgPoints = player.totalPoints / player.sessionsParticipated
AveragePointsOf(player) ==
    IF player.sessionsParticipated > 0
    THEN DoubleDivide(
             MathRound(DoubleTimes(
                 DoubleDivide(player.totalPoints, player.sessionsParticipated),
                 100)),
             100)
    ELSE Zero

\* x < 0
Negative(x) == x.m # <<>> /\ x.neg

\* playerAverages.sort((a, b) => b.averagePoints - a.averagePoints) on
\* binary64 averages: stable, descending
RECURSIVE InsertByAveragePoints(_, _)
InsertByAveragePoints(sorted, x) ==
    IF sorted = <<>> THEN <<x>>
    ELSE IF Negative(DoubleSubtract(Head(sorted).averagePoints, x.averagePoints))
    THEN <<x>> \o sorted
    ELSE <<Head(sorted)>> \o InsertByAveragePoints(Tail(sorted), x)

RECURSIVE SortByAveragePoints(_)
SortByAveragePoints(s) ==
    IF s = <<>> THEN <<>>
    ELSE InsertByAveragePoints(SortByAveragePoints(SubSeq(s, 1, Len(s) - 1)),
                               s[Len(s)])

\* the totals of generatePlayerSummary
PlayerSummaryTotals(playerAverages) ==
    IF Len(playerAverages) = 0 THEN Null
    ELSE [totalPointsAllPlayers |-> ReduceTotalPoints(Zero, playerAverages)]

\* calculatePlayerAveragePoints(...): playerStats and summary
PlayerTotals(data) ==
    Const(SortByAveragePoints(
              Map(CollectPlayerTotals(<<>>, data),
                  LAMBDA player :
                      [playerId      |-> player.playerId,
                       totalPoints   |-> player.totalPoints,
                       sessionsParticipated |-> player.sessionsParticipated,
                       averagePoints |-> AveragePointsOf(player)])),
          LAMBDA playerAverages :
              [playerStats |-> playerAverages,
               summary     |-> PlayerSummaryTotals(playerAverages)])

\* two sessions, or the first of them only, so that the records of the
\* other are records of no session; the records differ in session, athlete,
\* attendance and points, which are tenths and whole numbers
TotalsSessions ==
    {<<TrainingSession("s1", NoDate), TrainingSession("s2", NoDate)>>,
     <<TrainingSession("s1", NoDate)>>}
TotalsRecords ==
    SeqUpTo({AthleteSessionRecord(sid, aid, "Present", h) :
                sid \in FirstSessionIds, aid \in {"a1", "a2"},
                h \in {10, 20, 30, 100, 200}}
            \cup {AthleteSessionRecord("s2", "a2", "Absent", 30)},
            MaxRecords)

InitTotals ==
    /\ trainingSessions \in TotalsSessions
    /\ athleteSessionData \in TotalsRecords
    /\ avgPoints = <<>>
    /\ dataPoints = <<>>
    /\ parsedData = <<>>
    /\ chartStats = <<>>
    /\ chartMetrics = <<>>
    /\ metric = "points"
    /\ localOffset = 0
    /\ lastCall = "none"
    /\ result = [team |-> Null, player |-> Null]
    /\ console = <<>>
    /\ chartInstance = Null
    /\ PageInit

CallTeamTotals ==
    /\ lastCall \in {"none", "player"}
    /\ lastCall' = IF lastCall = "none" THEN "team" ELSE "both"
    /\ UNCHANGED page
    /\ result' = [result EXCEPT
                     !.team = TeamTotals(trainingSessions, athleteSessionData)]
    /\ console' = console \o CollectSessionWarnings(trainingSessions, athleteSessionData)
    /\ Leaves(calculateTeamPerformanceTrendObjects(
                  CallerObjects, Caller.trainingSessions, Caller.athleteSessionData))

CallPlayerTotals ==
    /\ lastCall \in {"none", "team"}
    /\ lastCall' = IF lastCall = "none" THEN "player" ELSE "both"
    /\ UNCHANGED page
    /\ result' = [result EXCEPT !.player = PlayerTotals(athleteSessionData)]
    /\ Leaves(calculatePlayerAveragePointsObjects(CallerObjects, Caller.athleteSessionData))
    /\ UNCHANGED console

NextTotals ==
    \/ CallTeamTotals
    \/ CallPlayerTotals

SpecTotals == InitTotals /\ [][NextTotals]_vars

\* every record's sessionId is the id of exactly one training session
EveryRecordInOneSession ==
    \A i \in DOMAIN athleteSessionData :
        Cardinality({j \in DOMAIN trainingSessions :
                        trainingSessions[j].id = athleteSessionData[i].sessionId}) = 1

\* the points of every record are a whole number
WholeNumberPoints ==
    \A i \in DOMAIN athleteSessionData :
        parseFloatOrZero(athleteSessionData[i].points) % 100 = 0

BothSummaries ==
    /\ lastCall = "both"
    /\ result.team # Null
    /\ result.player.summary # Null

SessionsParticipatedOverAll ==
    SumSeq(Map(result.player.playerStats, LAMBDA p : p.sessionsParticipated))

\* C37 as stated: for the same inputs, when every record's sessionId equals
\* the id of exactly one training session, the team summary's
\* totalPointsScored equals the player summary's totalPointsAllPlayers, and
\* totalAthletesTracked equals the sum of sessionsParticipated over all
\* players.
C37_TotalsAgreeExactly ==
    (BothSummaries /\ EveryRecordInOneSession) =>
        /\ result.team.totalPointsScored = result.player.summary.totalPointsAllPlayers
        /\ result.team.totalAthletesTracked = SessionsParticipatedOverAll

\* C37 as amended: under the same condition totalAthletesTracked equals the
\* sum of sessionsParticipated over all players; totalPointsScored equals
\* totalPointsAllPlayers when the points of every record are whole numbers,
\* and otherwise the two differ by no more than the rounding of the two
\* orders of addition
C37_TotalsAgreeWithinRounding ==
    (BothSummaries /\ EveryRecordInOneSession) =>
        /\ result.team.totalAthletesTracked = SessionsParticipatedOverAll
        /\ WholeNumberPoints =>
              result.team.totalPointsScored
                  = result.player.summary.totalPointsAllPlayers
        /\ WithinRounding(result.team.totalPointsScored,
                          result.player.summary.totalPointsAllPlayers,
                          <<result.team.totalPointsScored>>)

\* both calculators were called on three participating records of two
\* athletes, each record in one listed session, and the two point totals
\* differ
C37_Witness ==
    /\ BothSummaries
    /\ EveryRecordInOneSession
    /\ Len(athleteSessionData) = MaxRecords
    /\ Len(result.player.playerStats) = 2
    /\ result.team.totalAthletesTracked = 3
    /\ result.team.totalPointsScored # result.player.summary.totalPointsAllPlayers

====
